---------------------------- MODULE Spec2Model ----------------------------
(***************************************************************************)
(* A model of sqlit's vim emulation engine (sqlit/plugins/vim_mode/engine). *)
(*                                                                         *)
(* Text is a sequence of one-character strings; the document is the list   *)
(* of its lines (DocumentWrapper.lines, text.split("\n")).  Positions are  *)
(* <<row, col>>, zero-indexed as in the source; TLA+ sequences are         *)
(* one-indexed, so character col of a line is line[col + 1].               *)
(*                                                                         *)
(* The host widget (Textual's TextArea) is modelled by the TA* operators:  *)
(* replace / insert keep the selection's offset, and every selection that  *)
(* is stored is clamped to a visitable location.                           *)
(***************************************************************************)
EXTENDS Integers, Sequences, FiniteSets, TLC

VARIABLES
    lines,                \* TextArea.text, as DocumentWrapper.lines
    cursor,               \* TextArea.cursor_location (the selection's end)
    anchor,               \* the TextArea selection's start
    mode,                 \* VimState.mode
    pending_operator,     \* VimState.pending_operator, a key sequence (<<>> is None)
    operator_count,       \* VimState.operator_count
    motion_count,         \* VimState.motion_count
    input_buffer,         \* VimState.input_buffer (digits typed)
    current_register,     \* VimState.current_register
    registers,            \* VimState.registers: name -> [content, linewise]
    visual_anchor,        \* VimState.visual_anchor (<<>> is None)
    last_char_search,     \* VimState.last_char_search ("" when unset)
    last_char_search_cmd, \* VimState.last_char_search_cmd
    key_buffer,           \* VimEngine._key_buffer, a key sequence
    pending_char_cmd,     \* VimEngine._pending_char_cmd ("" is None)
    command_buffer,       \* VimCommandHandler._command_buffer
    notified,             \* the mode last passed to the on_mode_change callback
    result,               \* the KeyResult of the last handle_key call
    trace,                \* what the last handle_key call executed (history)
    lastKey,              \* the key of the last handle_key call (history)
    nkeys,                \* number of keys handled so far (history)
    keys,                 \* the keys the host delivers in this run
    edit_history,         \* the TextArea's earlier contents, for undo and redo
    budget                \* how many keys the host delivers in this run

vars == <<lines, cursor, anchor, mode, pending_operator, operator_count,
          motion_count, input_buffer, current_register, registers,
          visual_anchor, last_char_search, last_char_search_cmd, key_buffer,
          pending_char_cmd, command_buffer, notified, result, trace,
          lastKey, nkeys, keys, edit_history, budget>>

-----------------------------------------------------------------------------
(* Bounds of the model. *)

MaxKeys == 4          \* keys delivered in one run
MaxDigits == 2        \* digits accumulated in the count buffer
MaxLineLen == 24      \* characters in one line
MaxLines == 8         \* lines in the document
MaxCmdLen == 6        \* characters in the command line

-----------------------------------------------------------------------------
(* Characters and strings. *)

LowerSeq == <<"a","b","c","d","e","f","g","h","i","j","k","l","m",
              "n","o","p","q","r","s","t","u","v","w","x","y","z">>
UpperSeq == <<"A","B","C","D","E","F","G","H","I","J","K","L","M",
              "N","O","P","Q","R","S","T","U","V","W","X","Y","Z">>
DigitSeq == <<"0","1","2","3","4","5","6","7","8","9">>

Range(s) == {s[i] : i \in 1..Len(s)}

Min(a, b) == IF a <= b THEN a ELSE b
Max(a, b) == IF a >= b THEN a ELSE b

IndexOf(s, c) == CHOOSE i \in 1..Len(s) : s[i] = c

isdigit(c) == c \in Range(DigitSeq)
isupper(c) == c \in Range(UpperSeq)
islower(c) == c \in Range(LowerSeq)
isspace(c) == c \in {" ", "\t", "\n"}

lower(c) == IF isupper(c) THEN LowerSeq[IndexOf(UpperSeq, c)] ELSE c
upper(c) == IF islower(c) THEN UpperSeq[IndexOf(LowerSeq, c)] ELSE c

MapSeq(s, Op(_)) == [i \in 1..Len(s) |-> Op(s[i])]

\* a str.lower that leaves every character as it is (a variant of str_lower,
\* kept to show that property C10 depends on the case folding)
str_lower_unchanged(s) == s

str_lower(s) == MapSeq(s, lower)
str_upper(s) == MapSeq(s, upper)
swap_char(c) == IF isupper(c) THEN lower(c) ELSE upper(c)
str_swapcase(s) == MapSeq(s, swap_char)

\* s[a:b] of Python for 0 <= a, with both ends clamped to the string
Slice(s, a, b) == SubSeq(s, a + 1, Min(b, Len(s)))
SliceFrom(s, a) == SubSeq(s, a + 1, Len(s))

RECURSIVE JoinLines(_)
JoinLines(ls) ==
    IF Len(ls) = 0 THEN <<>>
    ELSE IF Len(ls) = 1 THEN ls[1]
    ELSE ls[1] \o <<"\n">> \o JoinLines(Tail(ls))

RECURSIVE SplitLines(_)
SplitLines(text) ==
    IF \A i \in 1..Len(text) : text[i] # "\n" THEN <<text>>
    ELSE LET i == CHOOSE j \in 1..Len(text) :
                      text[j] = "\n" /\ \A k \in 1..(j - 1) : text[k] # "\n"
         IN <<SubSeq(text, 1, i - 1)>> \o SplitLines(SubSeq(text, i + 1, Len(text)))

RECURSIVE ToInt(_)
ToInt(ds) ==
    IF Len(ds) = 0 THEN 0
    ELSE 10 * ToInt(SubSeq(ds, 1, Len(ds) - 1)) + (IndexOf(DigitSeq, ds[Len(ds)]) - 1)

PosLess(p, q) == p[1] < q[1] \/ (p[1] = q[1] /\ p[2] < q[2])
PosLeq(p, q) == p = q \/ PosLess(p, q)
PosMin(p, q) == IF PosLeq(p, q) THEN p ELSE q
PosMax(p, q) == IF PosLeq(p, q) THEN q ELSE p

-----------------------------------------------------------------------------
(* The host TextArea. *)

LineAt(ls, row) == IF row >= 0 /\ row < Len(ls) THEN ls[row + 1] ELSE <<>>

clamp(v, lo, hi) == IF v < lo THEN lo ELSE IF v > hi THEN hi ELSE v

clamp_visitable(ls, pos) ==
    <<clamp(pos[1], 0, Len(ls) - 1), clamp(pos[2], 0, Len(LineAt(ls, pos[1])))>>

TAMoveCursor(S, pos, select) ==
    LET MoveTo(p) == [S EXCEPT !.cursor = p, !.anchor = IF select THEN S.anchor ELSE p]
    IN MoveTo(clamp_visitable(S.lines, pos))

TASetSelection(S, start, end) ==
    [S EXCEPT !.anchor = clamp_visitable(S.lines, start),
              !.cursor = clamp_visitable(S.lines, end)]

\* Document.replace_range: the new lines and the location after the new text
ReplaceRange(ls, top, bottom, text) ==
    LET Splice(before, after, ins) ==
            [lines |-> SubSeq(ls, 1, top[1])
                       \o [i \in 1..Len(ins) |->
                              (IF i = 1 THEN before ELSE <<>>) \o ins[i]
                                  \o (IF i = Len(ins) THEN after ELSE <<>>)]
                       \o SubSeq(ls, bottom[1] + 2, Len(ls)),
             end_location |-> <<top[1] + Len(ins) - 1,
                                Len(ins[Len(ins)])
                                    + (IF Len(ins) = 1 THEN Len(before) ELSE 0)>>]
    IN Splice(Slice(LineAt(ls, top[1]), 0, top[2]),
              SliceFrom(LineAt(ls, bottom[1]), bottom[2]),
              SplitLines(text))

\* Edit.do with maintain_selection_offset: a selection end at or after the
\* edit's bottom moves with the text, any other keeps its coordinates
ShiftLocation(loc, bottom, end_location) ==
    <<IF bottom[1] <= loc[1] THEN loc[1] + (end_location[1] - bottom[1]) ELSE loc[1],
      IF bottom[1] = loc[1] /\ bottom[2] <= loc[2]
        THEN loc[2] + (end_location[2] - bottom[2]) ELSE loc[2]>>

TAReplace(S, text, start, end) ==
    LET Apply(bottom, r) ==
            [S EXCEPT !.lines = r.lines,
                      !.anchor = clamp_visitable(r.lines,
                                     ShiftLocation(S.anchor, bottom, r.end_location)),
                      !.cursor = clamp_visitable(r.lines,
                                     ShiftLocation(S.cursor, bottom, r.end_location))]
    IN Apply(PosMax(start, end),
             ReplaceRange(S.lines, PosMin(start, end), PosMax(start, end), text))

TAInsert(S, text) == TAReplace(S, text, S.cursor, S.cursor)

-----------------------------------------------------------------------------
(* DocumentWrapper: properties and cursor movement. *)

line_count(S) == Len(S.lines)
cursor_row(S) == S.cursor[1]
cursor_col(S) == S.cursor[2]
current_line(S) == LineAt(S.lines, cursor_row(S))
current_line_length(S) == Len(current_line(S))

\* the index of the first character at or after col that fails the flag,
\* or the line's length: "while col < len(line) and flag(line[col]): col += 1"
SkipFwd(flags, col) ==
    IF col >= Len(flags) THEN col
    ELSE CHOOSE c \in col..Len(flags) :
            /\ (c = Len(flags) \/ ~flags[c + 1])
            /\ \A k \in col..(c - 1) : flags[k + 1]

\* "while col >= 0 and col < len(line) and flag(line[col]): col -= 1"
SkipBack(flags, col) ==
    IF col < 0 \/ col >= Len(flags) THEN col
    ELSE CHOOSE c \in (-1)..col :
            /\ (c = -1 \/ ~flags[c + 1])
            /\ \A k \in (c + 1)..col : flags[k + 1]

\* "while col < len(line) - 1 and flag(line[col + 1]): col += 1"
ExtendFwd(flags, col) ==
    IF col >= Len(flags) - 1 THEN col
    ELSE CHOOSE c \in col..(Len(flags) - 1) :
            /\ (c = Len(flags) - 1 \/ ~flags[c + 2])
            /\ \A k \in col..(c - 1) : flags[k + 2]

\* "while col > 0 and flag(line[col - 1]): col -= 1"
ExtendBack(flags, col) ==
    IF col <= 0 THEN col
    ELSE CHOOSE c \in 0..col :
            /\ (c = 0 \/ ~flags[c])
            /\ \A k \in (c + 1)..col : flags[k]

SpaceFlags(line) == [i \in 1..Len(line) |-> isspace(line[i])]
NonSpaceFlags(line) == [i \in 1..Len(line) |-> ~isspace(line[i])]

is_word_char(c) == c \in (Range(LowerSeq) \cup Range(UpperSeq) \cup Range(DigitSeq) \cup {"_"})

\* a classification with no punctuation class (a variant of get_char_class,
\* kept to show that property C8 depends on the three classes)
get_char_class_two_classes(c) == IF isspace(c) THEN 0 ELSE 1

get_char_class(c) == IF isspace(c) THEN 0 ELSE IF is_word_char(c) THEN 1 ELSE 2

ClassFlags(line, cls) == [i \in 1..Len(line) |-> get_char_class(line[i]) = cls]

get_cursor_left(S, count) == <<cursor_row(S), Max(0, cursor_col(S) - count)>>

get_cursor_right(S, count) ==
    <<cursor_row(S), Min(Max(0, current_line_length(S) - 1), cursor_col(S) + count)>>

get_cursor_up(S, count) ==
    LET new_row == Max(0, cursor_row(S) - count)
    IN <<new_row, Min(cursor_col(S), Max(0, Len(LineAt(S.lines, new_row)) - 1))>>

get_cursor_down(S, count) ==
    LET new_row == Min(line_count(S) - 1, cursor_row(S) + count)
    IN <<new_row, Min(cursor_col(S), Max(0, Len(LineAt(S.lines, new_row)) - 1))>>

get_line_start(S) == <<cursor_row(S), 0>>

get_line_end(S) == <<cursor_row(S), Max(0, current_line_length(S) - 1)>>

FirstNonBlankCol(line) ==
    LET Found(c) == IF c < Len(line) THEN c ELSE 0
    IN Found(SkipFwd(SpaceFlags(line), 0))

get_first_non_blank(S) == <<cursor_row(S), FirstNonBlankCol(current_line(S))>>

\* len(line.rstrip())
RStripLen(line) == ExtendBack(SpaceFlags(line), Len(line))

get_last_non_blank(S) ==
    LET Last(n) == IF n > 0 THEN <<cursor_row(S), n - 1>> ELSE <<cursor_row(S), 0>>
    IN Last(RStripLen(current_line(S)))

get_document_start(S) == <<0, 0>>

get_document_end(S) ==
    LET last_row == Max(0, line_count(S) - 1)
    IN <<last_row, FirstNonBlankCol(LineAt(S.lines, last_row))>>

get_line_n(S, n) ==
    LET row == Max(0, Min(n - 1, line_count(S) - 1))
    IN <<row, FirstNonBlankCol(LineAt(S.lines, row))>>

-----------------------------------------------------------------------------
(* DocumentWrapper: word navigation. *)

\* one pass of the loop of get_word_start_forward, from (row, col)
WordStartForwardStep(ls, row, col, big_word) ==
    LET Land(line, c2) ==
            IF c2 >= Len(line)
            THEN <<row + 1,
                   IF row + 1 < Len(ls) THEN SkipFwd(SpaceFlags(ls[row + 2]), 0) ELSE 0>>
            ELSE <<row, c2>>
        SkipWord(line) ==
            IF big_word THEN SkipFwd(NonSpaceFlags(line), col)
            ELSE IF col < Len(line)
                 THEN SkipFwd(ClassFlags(line, get_char_class(line[col + 1])), col)
                 ELSE col
    IN Land(ls[row + 1], SkipFwd(SpaceFlags(ls[row + 1]), SkipWord(ls[row + 1])))

RECURSIVE WordStartForwardLoop(_, _, _, _, _)
WordStartForwardLoop(ls, row, col, count, big_word) ==
    LET Again(p) == WordStartForwardLoop(ls, p[1], p[2], count - 1, big_word)
    IN IF count = 0 \/ row >= Len(ls) THEN <<row, col>>
       ELSE Again(WordStartForwardStep(ls, row, col, big_word))

get_word_start_forward(S, count, big_word) ==
    LET Clamped(p) == <<Min(p[1], Len(S.lines) - 1), p[2]>>
    IN Clamped(WordStartForwardLoop(S.lines, cursor_row(S), cursor_col(S), count, big_word))

\* one pass of the loop of get_word_end_forward: <<row, col, break>>
WordEndForwardStep(ls, row, col, big_word) ==
    LET EndOfWord(line, r1, c2) ==
            <<r1,
              IF big_word THEN ExtendFwd(NonSpaceFlags(line), c2)
              ELSE IF c2 < Len(line)
                   THEN ExtendFwd(ClassFlags(line, get_char_class(line[c2 + 1])), c2)
                   ELSE c2,
              FALSE>>
        From(line, r1, c1) ==
            IF c1 >= Len(line) THEN <<r1, c1, TRUE>>
            ELSE EndOfWord(line, r1, SkipFwd(SpaceFlags(line), c1))
        Advance(wrap, r1) ==
            IF r1 >= Len(ls) THEN <<r1, 0, TRUE>>
            ELSE From(ls[r1 + 1], r1,
                      IF wrap THEN SkipFwd(SpaceFlags(ls[r1 + 1]), 0) ELSE col + 1)
    IN Advance(col + 1 >= Len(ls[row + 1]),
               IF col + 1 >= Len(ls[row + 1]) THEN row + 1 ELSE row)

RECURSIVE WordEndForwardLoop(_, _, _, _, _)
WordEndForwardLoop(ls, row, col, count, big_word) ==
    LET Again(p) == IF p[3] THEN <<p[1], p[2]>>
                    ELSE WordEndForwardLoop(ls, p[1], p[2], count - 1, big_word)
    IN IF count = 0 \/ row >= Len(ls) THEN <<row, col>>
       ELSE Again(WordEndForwardStep(ls, row, col, big_word))

get_word_end_forward(S, count, big_word) ==
    LET Clamped(p) == <<Min(p[1], Len(S.lines) - 1), p[2]>>
    IN Clamped(WordEndForwardLoop(S.lines, cursor_row(S), cursor_col(S), count, big_word))

\* one pass of the loop of get_word_start_backward: <<row, col, returned (0, 0)>>
WordStartBackwardStep(ls, row, col, big_word) ==
    LET StartOfWord(line, r2, c3) ==
            <<r2,
              IF big_word THEN ExtendBack(NonSpaceFlags(line), c3)
              ELSE IF c3 >= 0 /\ c3 < Len(line)
                   THEN ExtendBack(ClassFlags(line, get_char_class(line[c3 + 1])), c3)
                   ELSE c3,
              FALSE>>
        Wrapped(r2, c2) ==
            IF r2 < 0 THEN <<0, 0, TRUE>>
            ELSE StartOfWord(LineAt(ls, r2), r2,
                             IF c2 < 0 THEN Len(LineAt(ls, r2)) - 1 ELSE c2)
        Skipped(r1, c2) == Wrapped(IF c2 < 0 THEN r1 - 1 ELSE r1, c2)
        Back(r1) ==
            IF r1 < 0 THEN <<0, 0, TRUE>>
            ELSE Skipped(r1,
                         SkipBack(SpaceFlags(LineAt(ls, r1)),
                                  IF col - 1 < 0
                                  THEN (IF Len(LineAt(ls, r1)) > 0
                                        THEN Len(LineAt(ls, r1)) - 1 ELSE 0)
                                  ELSE col - 1))
    IN Back(IF col - 1 < 0 THEN row - 1 ELSE row)

RECURSIVE WordStartBackwardLoop(_, _, _, _, _)
WordStartBackwardLoop(ls, row, col, count, big_word) ==
    LET Again(p) == IF p[3] THEN <<0, 0>>
                    ELSE WordStartBackwardLoop(ls, p[1], p[2], count - 1, big_word)
    IN IF count = 0 THEN <<Max(0, row), Max(0, col)>>
       ELSE Again(WordStartBackwardStep(ls, row, col, big_word))

get_word_start_backward(S, count, big_word) ==
    WordStartBackwardLoop(S.lines, cursor_row(S), cursor_col(S), count, big_word)

-----------------------------------------------------------------------------
(* DocumentWrapper: find character.  None is <<>>. *)

RECURSIVE FindForwardScan(_, _, _, _)
FindForwardScan(line, col, char, count) ==
    IF col >= Len(line) THEN -1
    ELSE IF line[col + 1] = char
         THEN (IF count <= 1 THEN col ELSE FindForwardScan(line, col + 1, char, count - 1))
         ELSE FindForwardScan(line, col + 1, char, count)

find_char_forward(S, char, count, before) ==
    LET Found(c) == IF c < 0 THEN <<>> ELSE <<cursor_row(S), IF before THEN c - 1 ELSE c>>
    IN Found(FindForwardScan(current_line(S), cursor_col(S) + 1, char, count))

RECURSIVE FindBackwardScan(_, _, _, _)
FindBackwardScan(line, col, char, count) ==
    IF col < 0 THEN -1
    ELSE IF line[col + 1] = char
         THEN (IF count <= 1 THEN col ELSE FindBackwardScan(line, col - 1, char, count - 1))
         ELSE FindBackwardScan(line, col - 1, char, count)

find_char_backward(S, char, count, before) ==
    LET Found(c) == IF c < 0 THEN <<>> ELSE <<cursor_row(S), IF before THEN c + 1 ELSE c>>
    IN Found(FindBackwardScan(current_line(S), cursor_col(S) - 1, char, count))

-----------------------------------------------------------------------------
(* DocumentWrapper: text object boundaries.  None is <<>>. *)

get_word_boundaries(S, big_word) ==
    LET Around(flags, col) == <<ExtendBack(flags, col), ExtendFwd(flags, col) + 1>>
        Bounds(line, col) ==
            IF Len(line) = 0 \/ col >= Len(line) THEN <<col, col>>
            ELSE IF big_word
                 THEN (IF isspace(line[col + 1]) THEN <<col, col>>
                       ELSE Around(NonSpaceFlags(line), col))
                 ELSE Around(ClassFlags(line, get_char_class(line[col + 1])), col)
    IN Bounds(current_line(S), cursor_col(S))

get_outer_word_boundaries(S, big_word) ==
    LET Outer(line, b, end) ==
            <<IF end = b[1] + RStripLen(Slice(line, b[1], end))
              THEN ExtendBack(SpaceFlags(line), b[1])
              ELSE b[1],
              end>>
        Trailing(line, b) == Outer(line, b, SkipFwd(SpaceFlags(line), b[2]))
    IN Trailing(current_line(S), get_word_boundaries(S, big_word))

\* "while start >= 0 and (start >= len(line) or line[start] != quote_char): start -= 1"
RECURSIVE QuoteScanBack(_, _, _)
QuoteScanBack(line, start, quote_char) ==
    IF start >= 0 /\ (start >= Len(line) \/ line[start + 1] # quote_char)
    THEN QuoteScanBack(line, start - 1, quote_char)
    ELSE start

QuoteFlags(line, quote_char) == [i \in 1..Len(line) |-> line[i] # quote_char]

get_quote_boundaries(S, quote_char, inner) ==
    LET Pair(line, start, end) ==
            IF end >= Len(line) THEN <<>>
            ELSE IF inner
                 THEN <<<<cursor_row(S), start + 1>>, <<cursor_row(S), end>>>>
                 ELSE <<<<cursor_row(S), start>>, <<cursor_row(S), end + 1>>>>
        Opening(line, start) ==
            IF start >= Len(line) THEN <<>>
            ELSE Pair(line, start, SkipFwd(QuoteFlags(line, quote_char), start + 1))
        Scanned(line, col, back) ==
            Opening(line, IF back < 0 THEN SkipFwd(QuoteFlags(line, quote_char), col)
                          ELSE back)
    IN Scanned(current_line(S), cursor_col(S),
               QuoteScanBack(current_line(S), cursor_col(S), quote_char))

\* the backward scan for the opening bracket, tracking the nesting depth
RECURSIVE BracketScanBack(_, _, _, _, _)
BracketScanBack(line, start, depth, open_char, close_char) ==
    IF start < 0 THEN -1
    ELSE IF start < Len(line) /\ line[start + 1] = close_char
         THEN BracketScanBack(line, start - 1, depth + 1, open_char, close_char)
    ELSE IF start < Len(line) /\ line[start + 1] = open_char
         THEN (IF depth = 0 THEN start
               ELSE BracketScanBack(line, start - 1, depth - 1, open_char, close_char))
    ELSE BracketScanBack(line, start - 1, depth, open_char, close_char)

\* the forward scan for the closing bracket
RECURSIVE BracketScanFwd(_, _, _, _, _)
BracketScanFwd(line, end, depth, open_char, close_char) ==
    IF end >= Len(line) THEN end
    ELSE IF line[end + 1] = open_char
         THEN BracketScanFwd(line, end + 1, depth + 1, open_char, close_char)
    ELSE IF line[end + 1] = close_char
         THEN (IF depth = 0 THEN end
               ELSE BracketScanFwd(line, end + 1, depth - 1, open_char, close_char))
    ELSE BracketScanFwd(line, end + 1, depth, open_char, close_char)

get_bracket_boundaries(S, open_char, close_char, inner) ==
    LET Pair(line, start, end) ==
            IF end >= Len(line) THEN <<>>
            ELSE IF inner
                 THEN <<<<cursor_row(S), start + 1>>, <<cursor_row(S), end>>>>
                 ELSE <<<<cursor_row(S), start>>, <<cursor_row(S), end + 1>>>>
        Opening(line, start) ==
            IF start < 0 THEN <<>>
            ELSE Pair(line, start, BracketScanFwd(line, start + 1, 0, open_char, close_char))
    IN Opening(current_line(S),
               BracketScanBack(current_line(S), cursor_col(S), 0, open_char, close_char))

-----------------------------------------------------------------------------
(* DocumentWrapper: text manipulation. *)

move_cursor(S, pos) == TAMoveCursor(S, pos, FALSE)
move_cursor_select(S, pos) == TAMoveCursor(S, pos, TRUE)
\* a selection update that moves only the cursor end and keeps the anchor end
\* (a variant of set_selection, kept to show that property C12 depends on the
\* anchor end being set)
set_selection_cursor_end(S, start, end) == move_cursor_select(S, end)

set_selection(S, start, end) == TASetSelection(S, start, end)
insert_text(S, text) == TAInsert(S, text)

get_text_between(ls, start, end) ==
    LET Between(a, b) ==
            IF a[1] = b[1]
            THEN (IF a[1] < Len(ls) THEN Slice(ls[a[1] + 1], a[2], b[2]) ELSE <<>>)
            ELSE JoinLines(
                     (IF a[1] < Len(ls) THEN <<SliceFrom(ls[a[1] + 1], a[2])>> ELSE <<>>)
                     \o [i \in 1..(Min(b[1], Len(ls)) - a[1] - 1) |-> ls[a[1] + 1 + i]]
                     \o (IF b[1] < Len(ls) THEN <<Slice(ls[b[1] + 1], 0, b[2])>> ELSE <<>>))
    IN Between(PosMin(start, end), PosMax(start, end))

\* returns [S, deleted]
delete_range(S, start, end) ==
    [S |-> TAReplace(S, <<>>, PosMin(start, end), PosMax(start, end)),
     deleted |-> get_text_between(S.lines, start, end)]

get_line_range(ls, start_row, end_row) ==
    LET a == Max(0, start_row)
        b == Min(Len(ls) - 1, end_row)
    IN JoinLines(SubSeq(ls, a + 1, b + 1))

\* returns [S, deleted]
delete_lines(S, start_row, end_row) ==
    LET Cut(ls, a, b) ==
            [S |-> TAReplace(S, <<>>,
                       IF b + 1 < Len(ls) THEN <<a, 0>>
                       ELSE IF a > 0 THEN <<a - 1, Len(ls[a])>> ELSE <<a, 0>>,
                       IF b + 1 < Len(ls) THEN <<b + 1, 0>> ELSE <<b, Len(ls[b + 1])>>),
             deleted |-> JoinLines(SubSeq(ls, a + 1, b + 1))]
    IN Cut(S.lines, Max(0, start_row), Min(Len(S.lines) - 1, end_row))

replace_text(S, start, end, text) == TAReplace(S, text, PosMin(start, end), PosMax(start, end))

-----------------------------------------------------------------------------
(* VimState. *)

NORMAL == "NORMAL"
INSERT == "INSERT"
VISUAL == "VISUAL"
VISUAL_LINE == "V-LINE"
VISUAL_BLOCK == "V-BLOCK"
COMMAND == "COMMAND"
REPLACE == "REPLACE"
OPERATOR_PENDING == "OP-PENDING"

EXCLUSIVE == "EXCLUSIVE"
INCLUSIVE == "INCLUSIVE"
LINEWISE == "LINEWISE"

Register(content, linewise) == [content |-> content, linewise |-> linewise]

UNNAMED == "\""

InitialRegisters ==
    [r \in {UNNAMED, "0", "-", "+", "*"} |-> Register(<<>>, FALSE)]

reset_counts(S) ==
    [S EXCEPT !.operator_count = 1, !.motion_count = 1, !.input_buffer = <<>>]

\* a variant that resets the counts and keeps the operator
reset_operator_counts_only(S) == reset_counts(S)


reset_operator(S) == reset_counts([S EXCEPT !.pending_operator = <<>>])

get_effective_count(S) == S.operator_count * S.motion_count

enter_mode(S, new_mode) ==
    LET old_mode == S.mode
        S1 == [S EXCEPT !.mode = new_mode]
        S2 == IF old_mode = OPERATOR_PENDING THEN reset_operator(S1) ELSE S1
        S3 == IF old_mode \in {VISUAL, VISUAL_LINE, VISUAL_BLOCK}
                 /\ new_mode \notin {VISUAL, VISUAL_LINE, VISUAL_BLOCK}
              THEN [S2 EXCEPT !.visual_anchor = <<>>] ELSE S2
    IN [S3 EXCEPT !.input_buffer = <<>>]

yank_to_register(S, text, linewise) ==
    LET reg == Register(text, linewise)
        r1 == (UNNAMED :> reg) @@ S.registers
        r2 == IF S.pending_operator = <<"y">> THEN ("0" :> reg) @@ r1 ELSE r1
        r3 == IF S.current_register \notin {UNNAMED, "0", "-"}
              THEN (S.current_register :> reg) @@ r2 ELSE r2
    IN [S EXCEPT !.registers = r3, !.current_register = UNNAMED]

get_register_content(S) ==
    IF S.current_register \in DOMAIN S.registers
    THEN S.registers[S.current_register] ELSE Register(<<>>, FALSE)

\* a variant that enters the visual mode without recording the anchor
start_visual_unanchored(S, pos, new_mode) == enter_mode(S, new_mode)


start_visual(S, pos, new_mode) == enter_mode([S EXCEPT !.visual_anchor = pos], new_mode)

\* a variant that takes a leading 0 as a count digit too
accumulate_digit_leading_zero(S, digit) ==
    IF isdigit(digit)
    THEN [S |-> [S EXCEPT !.input_buffer = Append(@, digit)], consumed |-> TRUE]
    ELSE [S |-> S, consumed |-> FALSE]


\* returns [S, consumed]
accumulate_digit(S, digit) ==
    IF digit = "0" /\ Len(S.input_buffer) = 0 THEN [S |-> S, consumed |-> FALSE]
    ELSE IF isdigit(digit)
         THEN [S |-> [S EXCEPT !.input_buffer = Append(@, digit)], consumed |-> TRUE]
         ELSE [S |-> S, consumed |-> FALSE]

\* returns [S, count]
consume_count(S) ==
    IF Len(S.input_buffer) > 0
    THEN [S |-> [S EXCEPT !.input_buffer = <<>>], count |-> Max(1, ToInt(S.input_buffer))]
    ELSE [S |-> S, count |-> 1]

-----------------------------------------------------------------------------
(* Motions.  A motion returns [S, position, type, failed]; only the find    *)
(* motions change the state (the remembered character search).              *)

MotionResult(S, position, type, failed) ==
    [S |-> S, position |-> position, type |-> type, failed |-> failed]

motion_left(S, count) == MotionResult(S, get_cursor_left(S, count), EXCLUSIVE, FALSE)
motion_right(S, count) == MotionResult(S, get_cursor_right(S, count), EXCLUSIVE, FALSE)
motion_up(S, count) == MotionResult(S, get_cursor_up(S, count), LINEWISE, FALSE)
motion_down(S, count) == MotionResult(S, get_cursor_down(S, count), LINEWISE, FALSE)
motion_line_start(S, count) == MotionResult(S, get_line_start(S), EXCLUSIVE, FALSE)
motion_first_non_blank(S, count) == MotionResult(S, get_first_non_blank(S), EXCLUSIVE, FALSE)
motion_line_end(S, count) == MotionResult(S, get_line_end(S), INCLUSIVE, FALSE)
motion_last_non_blank(S, count) == MotionResult(S, get_last_non_blank(S), INCLUSIVE, FALSE)
motion_word_forward(S, count) ==
    MotionResult(S, get_word_start_forward(S, count, FALSE), EXCLUSIVE, FALSE)
motion_word_forward_big(S, count) ==
    MotionResult(S, get_word_start_forward(S, count, TRUE), EXCLUSIVE, FALSE)
motion_word_end(S, count) ==
    MotionResult(S, get_word_end_forward(S, count, FALSE), INCLUSIVE, FALSE)
motion_word_end_big(S, count) ==
    MotionResult(S, get_word_end_forward(S, count, TRUE), INCLUSIVE, FALSE)
motion_word_backward(S, count) ==
    MotionResult(S, get_word_start_backward(S, count, FALSE), EXCLUSIVE, FALSE)
motion_word_backward_big(S, count) ==
    MotionResult(S, get_word_start_backward(S, count, TRUE), EXCLUSIVE, FALSE)


motion_document_start(S, count) ==
    MotionResult(S, IF count > 1 THEN get_line_n(S, count) ELSE get_document_start(S),
                 LINEWISE, FALSE)

motion_document_end(S, count) ==
    MotionResult(S, IF count > 1 THEN get_line_n(S, count) ELSE get_document_end(S),
                 LINEWISE, FALSE)

motion_find_char(S, count, char, forward, before) ==
    LET Found(pos) ==
            IF pos = <<>>
            THEN MotionResult(S, S.cursor, EXCLUSIVE, TRUE)
            ELSE MotionResult([S EXCEPT !.last_char_search = char,
                                        !.last_char_search_cmd =
                                            IF forward THEN (IF before THEN "t" ELSE "f")
                                            ELSE (IF before THEN "T" ELSE "F")],
                              pos,
                              IF forward /\ ~before THEN INCLUSIVE ELSE EXCLUSIVE,
                              FALSE)
    IN Found(IF forward THEN find_char_forward(S, char, count, before)
             ELSE find_char_backward(S, char, count, before))

motion_repeat_find(S, count) ==
    IF S.last_char_search = "" \/ S.last_char_search_cmd = ""
    THEN MotionResult(S, S.cursor, EXCLUSIVE, TRUE)
    ELSE motion_find_char(S, count, S.last_char_search,
                          S.last_char_search_cmd \in {"f", "t"},
                          S.last_char_search_cmd \in {"t", "T"})

motion_repeat_find_reverse(S, count) ==
    IF S.last_char_search = "" \/ S.last_char_search_cmd = ""
    THEN MotionResult(S, S.cursor, EXCLUSIVE, TRUE)
    ELSE motion_find_char(S, count, S.last_char_search,
                          S.last_char_search_cmd \notin {"f", "t"},
                          S.last_char_search_cmd \in {"t", "T"})

MOTION_HANDLERS ==
    {"motion_left", "motion_right", "motion_up", "motion_down",
     "motion_line_start", "motion_first_non_blank", "motion_line_end",
     "motion_last_non_blank", "motion_word_forward", "motion_word_forward_big",
     "motion_word_end", "motion_word_end_big", "motion_word_backward",
     "motion_word_backward_big", "motion_document_start", "motion_document_end",
     "motion_repeat_find", "motion_repeat_find_reverse"}

\* the function get_motion_handler(name) returns, applied
call_motion(name, S, count) ==
    CASE name = "motion_left" -> motion_left(S, count)
      [] name = "motion_right" -> motion_right(S, count)
      [] name = "motion_up" -> motion_up(S, count)
      [] name = "motion_down" -> motion_down(S, count)
      [] name = "motion_line_start" -> motion_line_start(S, count)
      [] name = "motion_first_non_blank" -> motion_first_non_blank(S, count)
      [] name = "motion_line_end" -> motion_line_end(S, count)
      [] name = "motion_last_non_blank" -> motion_last_non_blank(S, count)
      [] name = "motion_word_forward" -> motion_word_forward(S, count)
      [] name = "motion_word_forward_big" -> motion_word_forward_big(S, count)
      [] name = "motion_word_end" -> motion_word_end(S, count)
      [] name = "motion_word_end_big" -> motion_word_end_big(S, count)
      [] name = "motion_word_backward" -> motion_word_backward(S, count)
      [] name = "motion_word_backward_big" -> motion_word_backward_big(S, count)
      [] name = "motion_document_start" -> motion_document_start(S, count)
      [] name = "motion_document_end" -> motion_document_end(S, count)
      [] name = "motion_repeat_find" -> motion_repeat_find(S, count)
      [] name = "motion_repeat_find_reverse" -> motion_repeat_find_reverse(S, count)

-----------------------------------------------------------------------------
(* Text objects.  A text object returns [start, end, type, failed].         *)

TextObjectResult(start, end, failed) ==
    [start |-> start, end |-> end, type |-> EXCLUSIVE, failed |-> failed]

textobj_word(S, big_word, outer) ==
    LET Object(b) ==
            TextObjectResult(<<cursor_row(S), b[1]>>, <<cursor_row(S), b[2]>>, FALSE)
    IN Object(IF outer THEN get_outer_word_boundaries(S, big_word)
              ELSE get_word_boundaries(S, big_word))

textobj_quote(S, quote_char, inner) ==
    LET Object(r) == IF r = <<>> THEN TextObjectResult(S.cursor, S.cursor, TRUE)
                     ELSE TextObjectResult(r[1], r[2], FALSE)
    IN Object(get_quote_boundaries(S, quote_char, inner))

textobj_bracket(S, open_char, close_char, inner) ==
    LET Object(r) == IF r = <<>> THEN TextObjectResult(S.cursor, S.cursor, TRUE)
                     ELSE TextObjectResult(r[1], r[2], FALSE)
    IN Object(get_bracket_boundaries(S, open_char, close_char, inner))

\* the function get_text_object_handler(name) returns, applied (the backquote
\* objects are left out: that character cannot be written in a string here)
call_text_object(name, S, count) ==
    CASE name = "textobj_inner_word" -> textobj_word(S, FALSE, FALSE)
      [] name = "textobj_outer_word" -> textobj_word(S, FALSE, TRUE)
      [] name = "textobj_inner_word_big" -> textobj_word(S, TRUE, FALSE)
      [] name = "textobj_outer_word_big" -> textobj_word(S, TRUE, TRUE)
      [] name = "textobj_inner_double_quote" -> textobj_quote(S, "\"", TRUE)
      [] name = "textobj_outer_double_quote" -> textobj_quote(S, "\"", FALSE)
      [] name = "textobj_inner_single_quote" -> textobj_quote(S, "'", TRUE)
      [] name = "textobj_outer_single_quote" -> textobj_quote(S, "'", FALSE)
      [] name = "textobj_inner_paren" -> textobj_bracket(S, "(", ")", TRUE)
      [] name = "textobj_outer_paren" -> textobj_bracket(S, "(", ")", FALSE)
      [] name = "textobj_inner_bracket" -> textobj_bracket(S, "[", "]", TRUE)
      [] name = "textobj_outer_bracket" -> textobj_bracket(S, "[", "]", FALSE)
      [] name = "textobj_inner_brace" -> textobj_bracket(S, "{", "}", TRUE)
      [] name = "textobj_outer_brace" -> textobj_bracket(S, "{", "}", FALSE)
      [] name = "textobj_inner_angle" -> textobj_bracket(S, "<", ">", TRUE)
      [] name = "textobj_outer_angle" -> textobj_bracket(S, "<", ">", FALSE)

-----------------------------------------------------------------------------
(* Operators.  An operator returns [S, enter_insert].                       *)

OperatorResult(S, enter_insert) == [S |-> S, enter_insert |-> enter_insert]

\* the end of a characterwise range, one further for an inclusive motion
InclusiveEnd(ls, start, end, obj_type) ==
    LET Past(e) == IF obj_type = INCLUSIVE /\ e[2] < Len(LineAt(ls, e[1]))
                   THEN <<e[1], e[2] + 1>>
                   ELSE e
    IN Past(PosMax(start, end))

operator_delete(S, start, end, obj_type) ==
    LET Yank(d, linewise) ==
            OperatorResult(yank_to_register(d.S, d.deleted, linewise), FALSE)
    IN IF obj_type = LINEWISE
       THEN Yank(delete_lines(S, Min(start[1], end[1]), Max(start[1], end[1])), TRUE)
       ELSE Yank(delete_range(S, PosMin(start, end),
                              InclusiveEnd(S.lines, start, end, obj_type)), FALSE)

operator_change(S, start, end, obj_type) ==
    OperatorResult(operator_delete(S, start, end, obj_type).S, TRUE)

\* a variant that takes the yanked text out of the document
operator_yank_cutting(S, start, end, obj_type) == operator_delete(S, start, end, obj_type)


operator_yank(S, start, end, obj_type) ==
    IF obj_type = LINEWISE
    THEN OperatorResult(
             yank_to_register(S, get_line_range(S.lines, Min(start[1], end[1]),
                                                Max(start[1], end[1])), TRUE),
             FALSE)
    ELSE OperatorResult(
             yank_to_register(S, get_text_between(S.lines, PosMin(start, end),
                                  InclusiveEnd(S.lines, start, end, obj_type)), FALSE),
             FALSE)

INDENT == <<" ", " ", " ", " ">>

\* the loop of operator_indent over the rows row..end_row of a document that
\* had n lines when the operator started
RECURSIVE IndentRows(_, _, _, _)
IndentRows(S, row, end_row, n) ==
    IF row > end_row THEN S
    ELSE IndentRows(IF row < n THEN replace_text(S, <<row, 0>>, <<row, 0>>, INDENT) ELSE S,
                    row + 1, end_row, n)

operator_indent(S, start, end, obj_type) ==
    OperatorResult(IndentRows(S, Min(start[1], end[1]), Max(start[1], end[1]),
                              Len(S.lines)),
                   FALSE)

\* how many leading characters operator_dedent removes from a line
RECURSIVE SpacesToRemove(_, _)
SpacesToRemove(line, i) ==
    IF i >= 4 \/ i >= Len(line) THEN 0
    ELSE IF line[i + 1] = " " THEN 1 + SpacesToRemove(line, i + 1)
    ELSE IF line[i + 1] = "\t" THEN 1
    ELSE 0

\* the loop of operator_dedent; ls is the document as it was at the start
RECURSIVE DedentRows(_, _, _, _)
DedentRows(S, row, end_row, ls) ==
    LET Strip(k) == DedentRows(IF k > 0 THEN delete_range(S, <<row, 0>>, <<row, k>>).S
                               ELSE S,
                               row + 1, end_row, ls)
    IN IF row > end_row THEN S
       ELSE Strip(IF row < Len(ls) THEN SpacesToRemove(ls[row + 1], 0) ELSE 0)

operator_dedent(S, start, end, obj_type) ==
    OperatorResult(DedentRows(S, Min(start[1], end[1]), Max(start[1], end[1]), S.lines),
                   FALSE)

operator_lowercase(S, start, end, obj_type) ==
    LET Convert(a, b) ==
            OperatorResult(replace_text(S, a, b, str_lower(get_text_between(S.lines, a, b))),
                           FALSE)
    IN Convert(PosMin(start, end), InclusiveEnd(S.lines, start, end, obj_type))

operator_uppercase(S, start, end, obj_type) ==
    LET Convert(a, b) ==
            OperatorResult(replace_text(S, a, b, str_upper(get_text_between(S.lines, a, b))),
                           FALSE)
    IN Convert(PosMin(start, end), InclusiveEnd(S.lines, start, end, obj_type))

operator_swap_case(S, start, end, obj_type) ==
    LET Convert(a, b) ==
            OperatorResult(replace_text(S, a, b, str_swapcase(get_text_between(S.lines, a, b))),
                           FALSE)
    IN Convert(PosMin(start, end), InclusiveEnd(S.lines, start, end, obj_type))

\* the function get_operator_handler(name) returns, applied
call_operator(name, S, start, end, obj_type) ==
    CASE name = "operator_delete" -> operator_delete(S, start, end, obj_type)
      [] name = "operator_change" -> operator_change(S, start, end, obj_type)
      [] name = "operator_yank" -> operator_yank(S, start, end, obj_type)
      [] name = "operator_indent" -> operator_indent(S, start, end, obj_type)
      [] name = "operator_dedent" -> operator_dedent(S, start, end, obj_type)
      [] name = "operator_lowercase" -> operator_lowercase(S, start, end, obj_type)
      [] name = "operator_uppercase" -> operator_uppercase(S, start, end, obj_type)
      [] name = "operator_swap_case" -> operator_swap_case(S, start, end, obj_type)

-----------------------------------------------------------------------------
(* VimCommandHandler.                                                       *)

CMD_NONE == "none"
CMD_QUIT == "quit"
CMD_QUIT_FORCE == "quit_force"
CMD_WRITE == "write"
CMD_WRITE_QUIT == "write_quit"

\* a message is a fixed text followed by the characters formatted into it
Message(text, arg) == [text |-> text, arg |-> arg]
NoMessage == Message("", <<>>)

CommandResult(action, message, error) ==
    [action |-> action, message |-> message, error |-> error]

\* str.strip()
RECURSIVE lstrip(_)
lstrip(s) == IF Len(s) > 0 /\ isspace(s[1]) THEN lstrip(Tail(s)) ELSE s

RECURSIVE rstrip(_)
rstrip(s) ==
    IF Len(s) > 0 /\ isspace(s[Len(s)]) THEN rstrip(SubSeq(s, 1, Len(s) - 1)) ELSE s

strip(s) == rstrip(lstrip(s))

\* str.split(None, 1)[0] of a stripped, non-empty string
RECURSIVE FirstPart(_)
FirstPart(s) ==
    IF Len(s) = 0 \/ isspace(s[1]) THEN <<>> ELSE <<s[1]>> \o FirstPart(Tail(s))

command_start(S) == [S EXCEPT !.command_buffer = <<>>]

\* a variant that lets the character through to the text as well
add_char_into_text(S, char) ==
    [S EXCEPT !.command_buffer = Append(@, char), !.lines[1] = Append(@, char)]


add_char(S, char) == [S EXCEPT !.command_buffer = Append(@, char)]

\* a backspace that never reports an empty buffer (a variant of
\* command_backspace, kept to show that property C11 depends on its answer)
command_backspace_never_empty(S) ==
    [S |-> [S EXCEPT !.command_buffer = SubSeq(@, 1, Len(@) - 1)], ok |-> TRUE]

\* returns [S, ok]
command_backspace(S) ==
    IF Len(S.command_buffer) > 0
    THEN [S |-> [S EXCEPT !.command_buffer = SubSeq(@, 1, Len(@) - 1)], ok |-> TRUE]
    ELSE [S |-> S, ok |-> FALSE]

command_cancel(S) == [S EXCEPT !.command_buffer = <<>>]

parse_and_execute(cmd) ==
    LET Dispatch(base_cmd) ==
            IF base_cmd \in {<<"q">>, <<"q","u","i","t">>}
            THEN CommandResult(CMD_QUIT, NoMessage, FALSE)
            ELSE IF base_cmd \in {<<"q","!">>, <<"q","u","i","t","!">>}
            THEN CommandResult(CMD_QUIT_FORCE, NoMessage, FALSE)
            ELSE IF base_cmd \in {<<"w">>, <<"w","r","i","t","e">>}
            THEN CommandResult(CMD_WRITE, Message("Query saved to history", <<>>), FALSE)
            ELSE IF base_cmd \in {<<"w","q">>, <<"x">>, <<"e","x","i","t">>}
            THEN CommandResult(CMD_WRITE_QUIT, NoMessage, FALSE)
            ELSE IF base_cmd \in {<<"h">>, <<"h","e","l","p">>}
            THEN CommandResult(CMD_NONE,
                     Message("Commands: :q (quit), :w (save), :wq (save & quit), :q! (force quit)",
                             <<>>),
                     FALSE)
            ELSE CommandResult(CMD_NONE, Message("Unknown command: ", cmd), TRUE)
    IN IF cmd = <<>> THEN CommandResult(CMD_NONE, NoMessage, FALSE)
       ELSE Dispatch(str_lower(FirstPart(cmd)))

\* returns [S, result]
command_execute(S) ==
    [S |-> [S EXCEPT !.command_buffer = <<>>],
     result |-> parse_and_execute(strip(S.command_buffer))]

-----------------------------------------------------------------------------
(* The keymap.  A binding is <<key sequence, handler, modes>>.               *)

KEYMAP_MOTIONS ==
    << <<<<"h">>, "motion_left", {"normal"}>>,
       <<<<"l">>, "motion_right", {"normal"}>>,
       <<<<"j">>, "motion_down", {"normal"}>>,
       <<<<"k">>, "motion_up", {"normal"}>>,
       <<<<"left">>, "motion_left", {"normal"}>>,
       <<<<"right">>, "motion_right", {"normal"}>>,
       <<<<"down">>, "motion_down", {"normal"}>>,
       <<<<"up">>, "motion_up", {"normal"}>>,
       <<<<"backspace">>, "motion_left", {"normal"}>>,
       <<<<"space">>, "motion_right", {"normal"}>>,
       <<<<"0">>, "motion_line_start", {"normal"}>>,
       <<<<"^">>, "motion_first_non_blank", {"normal"}>>,
       <<<<"$">>, "motion_line_end", {"normal"}>>,
       <<<<"g", "_">>, "motion_last_non_blank", {"normal"}>>,
       <<<<"w">>, "motion_word_forward", {"normal"}>>,
       <<<<"W">>, "motion_word_forward_big", {"normal"}>>,
       <<<<"e">>, "motion_word_end", {"normal"}>>,
       <<<<"E">>, "motion_word_end_big", {"normal"}>>,
       <<<<"b">>, "motion_word_backward", {"normal"}>>,
       <<<<"B">>, "motion_word_backward_big", {"normal"}>>,
       <<<<"g", "g">>, "motion_document_start", {"normal"}>>,
       <<<<"G">>, "motion_document_end", {"normal"}>>,
       <<<<";">>, "motion_repeat_find", {"normal"}>>,
       <<<<",">>, "motion_repeat_find_reverse", {"normal"}>> >>

KEYMAP_OPERATORS ==
    << <<<<"d">>, "operator_delete", {"normal"}>>,
       <<<<"c">>, "operator_change", {"normal"}>>,
       <<<<"y">>, "operator_yank", {"normal"}>>,
       <<<<">">>, "operator_indent", {"normal"}>>,
       <<<<"<">>, "operator_dedent", {"normal"}>>,
       <<<<"g", "u">>, "operator_lowercase", {"normal"}>>,
       <<<<"g", "U">>, "operator_uppercase", {"normal"}>>,
       <<<<"g", "~">>, "operator_swap_case", {"normal"}>> >>

KEYMAP_TEXT_OBJECTS ==
    << <<<<"i", "w">>, "textobj_inner_word", {"normal"}>>,
       <<<<"a", "w">>, "textobj_outer_word", {"normal"}>>,
       <<<<"i", "W">>, "textobj_inner_word_big", {"normal"}>>,
       <<<<"a", "W">>, "textobj_outer_word_big", {"normal"}>>,
       <<<<"i", "\"">>, "textobj_inner_double_quote", {"normal"}>>,
       <<<<"a", "\"">>, "textobj_outer_double_quote", {"normal"}>>,
       <<<<"i", "'">>, "textobj_inner_single_quote", {"normal"}>>,
       <<<<"a", "'">>, "textobj_outer_single_quote", {"normal"}>>,
       <<<<"i", "(">>, "textobj_inner_paren", {"normal"}>>,
       <<<<"a", "(">>, "textobj_outer_paren", {"normal"}>>,
       <<<<"i", "b">>, "textobj_inner_paren", {"normal"}>>,
       <<<<"a", "b">>, "textobj_outer_paren", {"normal"}>>,
       <<<<"i", ")">>, "textobj_inner_paren", {"normal"}>>,
       <<<<"a", ")">>, "textobj_outer_paren", {"normal"}>>,
       <<<<"i", "[">>, "textobj_inner_bracket", {"normal"}>>,
       <<<<"a", "[">>, "textobj_outer_bracket", {"normal"}>>,
       <<<<"i", "]">>, "textobj_inner_bracket", {"normal"}>>,
       <<<<"a", "]">>, "textobj_outer_bracket", {"normal"}>>,
       <<<<"i", "{">>, "textobj_inner_brace", {"normal"}>>,
       <<<<"a", "{">>, "textobj_outer_brace", {"normal"}>>,
       <<<<"i", "B">>, "textobj_inner_brace", {"normal"}>>,
       <<<<"a", "B">>, "textobj_outer_brace", {"normal"}>>,
       <<<<"i", "}">>, "textobj_inner_brace", {"normal"}>>,
       <<<<"a", "}">>, "textobj_outer_brace", {"normal"}>>,
       <<<<"i", "<">>, "textobj_inner_angle", {"normal"}>>,
       <<<<"a", "<">>, "textobj_outer_angle", {"normal"}>>,
       <<<<"i", ">">>, "textobj_inner_angle", {"normal"}>>,
       <<<<"a", ">">>, "textobj_outer_angle", {"normal"}>> >>

KEYMAP_ACTIONS ==
    << <<<<"i">>, "action_insert", {"normal"}>>,
       <<<<"I">>, "action_insert_line_start", {"normal"}>>,
       <<<<"a">>, "action_append", {"normal"}>>,
       <<<<"A">>, "action_append_line_end", {"normal"}>>,
       <<<<"o">>, "action_open_below", {"normal"}>>,
       <<<<"O">>, "action_open_above", {"normal"}>>,
       <<<<"s">>, "action_substitute", {"normal"}>>,
       <<<<"S">>, "action_substitute_line", {"normal"}>>,
       <<<<"C">>, "action_change_to_eol", {"normal"}>>,
       <<<<"D">>, "action_delete_to_eol", {"normal"}>>,
       <<<<"u">>, "action_undo", {"normal"}>>,
       <<<<"ctrl+r">>, "action_redo", {"normal"}>>,
       <<<<"p">>, "action_paste_after", {"normal"}>>,
       <<<<"P">>, "action_paste_before", {"normal"}>>,
       <<<<"x">>, "action_delete_char", {"normal"}>>,
       <<<<"X">>, "action_delete_char_before", {"normal"}>>,
       <<<<"~">>, "action_swap_case_char", {"normal"}>>,
       <<<<"J">>, "action_join_lines", {"normal"}>>,
       <<<<".">>, "action_repeat", {"normal"}>>,
       <<<<"escape">>, "action_escape", {"insert", "visual", "command"}>>,
       <<<<"ctrl+[">>, "action_escape", {"insert", "visual", "command"}>>,
       <<<<"ctrl+c">>, "action_escape", {"insert", "visual", "command"}>> >>

KEYMAP_VISUAL_ACTIONS ==
    << <<<<"i">>, "action_visual_insert", {"visual"}>>,
       <<<<"a">>, "action_visual_append", {"visual"}>>,
       <<<<"I">>, "action_visual_insert", {"visual"}>>,
       <<<<"A">>, "action_visual_append", {"visual"}>> >>

KEYMAP_MODE_SWITCHES ==
    << <<<<"v">>, "mode_visual", {"normal"}>>,
       <<<<"V">>, "mode_visual_line", {"normal"}>>,
       <<<<"ctrl+v">>, "mode_visual_block", {"normal"}>>,
       <<<<":">>, "mode_command", {"normal", "visual"}>> >>

KEYMAP_PENDING ==
    << <<<<"f">>, "pending_find_forward", {"normal"}>>,
       <<<<"F">>, "pending_find_backward", {"normal"}>>,
       <<<<"t">>, "pending_till_forward", {"normal"}>>,
       <<<<"T">>, "pending_till_backward", {"normal"}>>,
       <<<<"r">>, "pending_replace_char", {"normal"}>>,
       <<<<"\"">>, "pending_register", {"normal"}>> >>

\* dict.get: the binding of a key sequence in one table, <<>> when absent
GetBinding(table, ks) ==
    IF \E i \in 1..Len(table) : table[i][1] = ks
    THEN table[CHOOSE i \in 1..Len(table) : table[i][1] = ks]
    ELSE <<>>

get_motion(ks) == GetBinding(KEYMAP_MOTIONS, ks)
get_operator(ks) == GetBinding(KEYMAP_OPERATORS, ks)
get_text_object(ks) == GetBinding(KEYMAP_TEXT_OBJECTS, ks)
get_pending(ks) == GetBinding(KEYMAP_PENDING, ks)
get_visual_action(ks) == GetBinding(KEYMAP_VISUAL_ACTIONS, ks)

BindingType_MOTION == "MOTION"
BindingType_OPERATOR == "OPERATOR"
BindingType_ACTION == "ACTION"
BindingType_MODE_SWITCH == "MODE_SWITCH"
BindingType_PENDING == "PENDING"

\* the first category, in lookup's order, that binds the key in this mode:
\* <<type, handler>>, or <<>> when there is none
RECURSIVE LookupFrom(_, _, _)
LookupFrom(cats, ks, m) ==
    LET Bound(b) == IF b # <<>> /\ (m \in b[3] \/ b[3] = {})
                    THEN <<cats[1][1], b[2]>>
                    ELSE LookupFrom(Tail(cats), ks, m)
    IN IF cats = <<>> THEN <<>>
       ELSE Bound(GetBinding(cats[1][2], ks))

lookup(key, m) ==
    LookupFrom(<< <<BindingType_MOTION, KEYMAP_MOTIONS>>, <<BindingType_OPERATOR, KEYMAP_OPERATORS>>,
                  <<BindingType_ACTION, KEYMAP_ACTIONS>>, <<BindingType_MODE_SWITCH, KEYMAP_MODE_SWITCHES>>,
                  <<BindingType_PENDING, KEYMAP_PENDING>> >>, <<key>>, m)

-----------------------------------------------------------------------------
(* VimEngine.  Every handler maps the state record S to the state after it, *)
(* with the KeyResult it returns in S.result and what it ran in S.trace.    *)

SPECIAL_KEYS ==
    {"escape", "ctrl+[", "ctrl+c", "enter", "backspace", "tab", "ctrl+r",
     "ctrl+v", "left", "right", "up", "down", "space"}

\* len(key) == 1
IsChar(key) == key \notin SPECIAL_KEYS

ESCAPE_KEYS == {"escape", "ctrl+[", "ctrl+c"}

KeyResult(consumed) ==
    [consumed |-> consumed, enter_insert |-> FALSE, show_command_line |-> FALSE,
     command_text |-> "", command_action |-> "", message |-> NoMessage]

EmptyTrace ==
    [motion |-> "", position |-> <<>>, type |-> "", failed |-> FALSE, from |-> <<>>,
     textobj |-> "", operator |-> "", op_start |-> <<>>, op_end |-> <<>>,
     op_type |-> "", action |-> "", count |-> 0, cmd_error |-> FALSE]

Return(S, consumed) == [S EXCEPT !.result = KeyResult(consumed)]

ReturnInsert(S) == [S EXCEPT !.result = [KeyResult(TRUE) EXCEPT !.enter_insert = TRUE]]

TraceMotion(S, name, r, count) ==
    [S EXCEPT !.trace.motion = name, !.trace.position = r.position,
              !.trace.type = r.type, !.trace.failed = r.failed,
              !.trace.from = S.cursor, !.trace.count = count]

TraceOperator(S, name, start, end, obj_type) ==
    [S EXCEPT !.trace.operator = name, !.trace.op_start = start,
              !.trace.op_end = end, !.trace.op_type = obj_type]

\* a variant that tells the host nothing
notify_mode_change_silent(S) == S


notify_mode_change(S) == [S EXCEPT !.notified = S.mode]

enter_insert_mode(S) == notify_mode_change(enter_mode(S, INSERT))

exit_insert_mode(S) ==
    LET StepBack(S1) == notify_mode_change(IF cursor_col(S1) > 0
                                           THEN move_cursor(S1, get_cursor_left(S1, 1))
                                           ELSE S1)
    IN StepBack(enter_mode(S, NORMAL))

enter_visual_mode(S, line_mode) ==
    LET a == S.cursor
        row == a[1]
    IN IF line_mode
       THEN notify_mode_change(
                move_cursor_select(
                    move_cursor(start_visual(S, a, VISUAL_LINE), <<row, 0>>),
                    <<row, Len(S.lines[row + 1])>>))
       ELSE notify_mode_change(start_visual(S, a, VISUAL))

exit_visual_mode(S) ==
    notify_mode_change(move_cursor(enter_mode(S, NORMAL), S.cursor))

\* a variant that leaves the cursor where the host put it
clamp_cursor_to_document_skipped(S) == S


clamp_cursor_to_document(S) ==
    LET n == line_count(S)
        row == IF S.cursor[1] >= n THEN Max(0, n - 1) ELSE S.cursor[1]
        line_len == Len(S.lines[row + 1])
        max_col == IF line_len > 0 THEN Max(0, line_len - 1) ELSE 0
        col == IF n > 0 THEN Min(S.cursor[2], max_col) ELSE 0
    IN move_cursor(S, <<row, col>>)

\* a variant that consumes the key and keeps the operator pending
CancelOperator_kept(S) == Return(S, TRUE)


\* cancelling the pending operator
CancelOperator(S) == Return(enter_mode(reset_operator(S), NORMAL), TRUE)

\* a variant that keeps every key from the text area
handle_insert_mode_swallowing(S, key) ==
    IF key \in ESCAPE_KEYS THEN Return(exit_insert_mode(S), TRUE)
    ELSE Return(S, TRUE)


handle_insert_mode(S, key) ==
    IF key \in ESCAPE_KEYS THEN Return(exit_insert_mode(S), TRUE)
    ELSE Return(S, FALSE)

execute_motion(S, handler_name) ==
    LET Move(S1, r) == Return(IF ~r.failed THEN move_cursor(S1, r.position) ELSE S1, TRUE)
        Moved(r, count) == Move(TraceMotion(r.S, handler_name, r, count), r)
        Counted(c) == Moved(call_motion(handler_name, c.S, c.count), c.count)
    IN IF handler_name \notin MOTION_HANDLERS THEN Return(S, FALSE)
       ELSE Counted(consume_count(S))

replace_char(S, char) ==
    IF cursor_col(S) < Len(current_line(S))
    THEN Return(replace_text(S, S.cursor, <<cursor_row(S), cursor_col(S) + 1>>, <<char>>),
                TRUE)
    ELSE Return(S, TRUE)

handle_pending_char(S, key) ==
    LET Move(S2, r) == Return(IF ~r.failed THEN move_cursor(S2, r.position) ELSE S2, TRUE)
        Moved(r, count) == Move(TraceMotion(r.S, "motion_find_char", r, count), r)
        Counted(cmd, c) ==
            IF cmd \in {"f", "F", "t", "T"}
            THEN Moved(motion_find_char(c.S, c.count, key, cmd \in {"f", "t"},
                                        cmd \in {"t", "T"}),
                       c.count)
            ELSE IF cmd = "r" THEN replace_char(c.S, key)
            ELSE Return(c.S, TRUE)
        Cleared(cmd, S1) == IF ~IsChar(key) THEN Return(S1, TRUE)
                            ELSE Counted(cmd, consume_count(S1))
    IN Cleared(S.pending_char_cmd, [S EXCEPT !.pending_char_cmd = ""])

\* the tail shared by the three ways of running an operator
FinishOperator(S, enter_insert) ==
    LET Finished(S1) == IF enter_insert THEN ReturnInsert(enter_insert_mode(S1))
                        ELSE Return(S1, TRUE)
    IN Finished(enter_mode(reset_operator(S), NORMAL))

execute_line_operator(S, handler_name) ==
    LET Done(r, start, end) ==
            FinishOperator(TraceOperator(r.S, handler_name, start, end, LINEWISE),
                           r.enter_insert)
        Lines(start, end) ==
            Done(call_operator(handler_name, S, start, end, LINEWISE), start, end)
    IN Lines(<<cursor_row(S), 0>>,
             <<Min(cursor_row(S) + get_effective_count(S) - 1, line_count(S) - 1), 0>>)

start_operator(S, handler_name, ks) ==
    LET Pending(c) == Return(enter_mode([c.S EXCEPT !.pending_operator = ks,
                                                    !.operator_count = c.count],
                                        OPERATOR_PENDING),
                             TRUE)
    IN IF S.pending_operator = ks THEN execute_line_operator(S, handler_name)
       ELSE Pending(consume_count(S))

execute_operator_with_motion(S, motion_handler) ==
    LET Done(r, name, start, end, obj_type) ==
            FinishOperator(TraceOperator(r.S, name, start, end, obj_type), r.enter_insert)
        Apply(S1, m, op_binding) ==
            IF m.failed THEN CancelOperator(S1)
            ELSE IF op_binding = <<>> THEN CancelOperator(S1)
            ELSE Done(call_operator(op_binding[2], S1, S1.cursor, m.position, m.type),
                      op_binding[2], S1.cursor, m.position, m.type)
        Traced(S1, m) ==
            Apply(S1, m, IF S1.pending_operator # <<>>
                         THEN get_operator(S1.pending_operator) ELSE <<>>)
        Moved(m, count) == Traced(TraceMotion(m.S, motion_handler, m, count), m)
    IN IF motion_handler \notin MOTION_HANDLERS THEN CancelOperator(S)
       ELSE Moved(call_motion(motion_handler, S, get_effective_count(S)),
                  get_effective_count(S))

execute_operator_with_text_object(S, textobj_handler) ==
    LET Done(r, name, t) ==
            FinishOperator(TraceOperator(r.S, name, t.start, t.end, t.type), r.enter_insert)
        Apply(S1, t, op_binding) ==
            IF t.failed THEN CancelOperator(S1)
            ELSE IF op_binding = <<>> THEN CancelOperator(S1)
            ELSE Done(call_operator(op_binding[2], S1, t.start, t.end, t.type),
                      op_binding[2], t)
        Selected(t) ==
            Apply([S EXCEPT !.trace.textobj = textobj_handler, !.trace.failed = t.failed],
                  t,
                  IF S.pending_operator # <<>>
                  THEN get_operator(S.pending_operator) ELSE <<>>)
    IN Selected(call_text_object(textobj_handler, S, get_effective_count(S)))

handle_operator_pending(S, key) ==
    LET TextObject(S1, b) == IF b # <<>> THEN execute_operator_with_text_object(S1, b[2])
                             ELSE CancelOperator(S1)
        Motion(S1, b) == IF b # <<>> THEN execute_operator_with_motion(S1, b[2])
                         ELSE CancelOperator(S1)
        Single(b) ==
            IF b # <<>> THEN execute_operator_with_motion(S, b[2])
            ELSE IF get_pending(<<key>>) # <<>> /\ key \in {"f", "F", "t", "T"}
                 THEN Return([S EXCEPT !.pending_char_cmd = key], TRUE)
            ELSE CancelOperator(S)
        Digit(d) ==
            IF d.consumed THEN Return(d.S, TRUE)
            ELSE IF key \in {"i", "a"} THEN Return([S EXCEPT !.key_buffer = <<key>>], TRUE)
            ELSE IF S.key_buffer \in {<<"i">>, <<"a">>}
                 THEN TextObject([S EXCEPT !.key_buffer = <<>>],
                                 get_text_object(S.key_buffer \o <<key>>))
            ELSE IF key = "g" THEN Return([S EXCEPT !.key_buffer = <<"g">>], TRUE)
            ELSE IF S.key_buffer = <<"g">>
                 THEN Motion([S EXCEPT !.key_buffer = <<>>], get_motion(<<"g", key>>))
            ELSE Single(get_motion(<<key>>))
    IN IF key \in ESCAPE_KEYS THEN CancelOperator(S)
       ELSE Digit(accumulate_digit(S, key))

\* TextArea.undo and TextArea.redo: the host restores the contents host
TAUndo(S, host) ==
    [S EXCEPT !.lines = host.lines,
              !.cursor = clamp_visitable(host.lines, host.cursor),
              !.anchor = clamp_visitable(host.lines, host.anchor)]

\* the loop of action_delete_char: row and col stay those of the start
RECURSIVE DeleteCharLoop(_, _, _, _)
DeleteCharLoop(S, row, col, n) ==
    LET Again(d) == DeleteCharLoop(yank_to_register(d.S, d.deleted, FALSE), row, col, n - 1)
    IN IF n = 0 THEN S
       ELSE IF col < Len(current_line(S))
            THEN Again(delete_range(S, <<row, col>>, <<row, col + 1>>))
            ELSE DeleteCharLoop(S, row, col, n - 1)

\* the loop of action_delete_char_before
RECURSIVE DeleteCharBeforeLoop(_, _, _, _)
DeleteCharBeforeLoop(S, row, col, n) ==
    LET Again(d) == DeleteCharBeforeLoop(yank_to_register(d.S, d.deleted, FALSE),
                                         row, col - 1, n - 1)
    IN IF n = 0 THEN S
       ELSE IF col > 0
            THEN Again(delete_range(S, <<row, col - 1>>, <<row, col>>))
            ELSE DeleteCharBeforeLoop(S, row, col, n - 1)

action_open_above(S) ==
    LET row == cursor_row(S)
    IN IF row = 0
       THEN move_cursor(insert_text(move_cursor(S, <<0, 0>>), <<"\n">>), <<0, 0>>)
       ELSE insert_text(move_cursor(S, <<row - 1, Len(S.lines[row])>>), <<"\n">>)

action_substitute_line(S) ==
    LET Clear(row, line, indent) ==
            move_cursor(delete_range(S, <<row, indent>>, <<row, Len(line)>>).S,
                        <<row, indent>>)
    IN Clear(cursor_row(S), current_line(S),
             Len(current_line(S)) - Len(lstrip(current_line(S))))

\* the deletion shared by action_change_to_eol and action_delete_to_eol
DeleteToEol(S) ==
    LET Yank(d) == yank_to_register(d.S, d.deleted, FALSE)
    IN IF cursor_col(S) < current_line_length(S)
       THEN Yank(delete_range(S, S.cursor, <<cursor_row(S), current_line_length(S)>>))
       ELSE S

action_paste_after(S) ==
    LET Paste(reg, row, col) ==
            IF reg.content = <<>> THEN S
            ELSE IF reg.linewise
                 THEN insert_text(move_cursor(S, <<row, current_line_length(S)>>),
                                  <<"\n">> \o reg.content)
                 ELSE insert_text(
                          move_cursor(S, <<row, IF col < current_line_length(S)
                                                THEN col + 1 ELSE col>>),
                          reg.content)
    IN Paste(get_register_content(S), cursor_row(S), cursor_col(S))

action_paste_before(S) ==
    LET Paste(reg, row) ==
            IF reg.content = <<>> THEN S
            ELSE IF reg.linewise
                 THEN (IF row = 0
                       THEN move_cursor(insert_text(move_cursor(S, <<0, 0>>),
                                                    reg.content \o <<"\n">>),
                                        <<0, 0>>)
                       ELSE insert_text(move_cursor(S, <<row - 1, Len(S.lines[row])>>),
                                        <<"\n">> \o reg.content))
                 ELSE insert_text(S, reg.content)
    IN Paste(get_register_content(S), cursor_row(S))

action_join_lines(S) ==
    LET Join(row, line_end, next_line) ==
            insert_text(
                move_cursor(delete_range(S, line_end,
                                <<row + 1, Len(next_line) - Len(lstrip(next_line))>>).S,
                            line_end),
                <<" ">>)
    IN IF cursor_row(S) < line_count(S) - 1
       THEN Join(cursor_row(S), <<cursor_row(S), current_line_length(S)>>,
                 S.lines[cursor_row(S) + 2])
       ELSE S

action_swap_case_char(S) ==
    LET Advance(S1, row, col, line) ==
            IF col < Len(line) - 1 THEN move_cursor(S1, <<row, col + 1>>) ELSE S1
        Swap(row, col, line) ==
            IF col < Len(line)
            THEN Advance(replace_text(S, <<row, col>>, <<row, col + 1>>,
                                      <<swap_char(line[col + 1])>>),
                         row, col, line)
            ELSE S
    IN Swap(cursor_row(S), cursor_col(S), current_line(S))

execute_action(S, handler_name, host) ==
    LET Act(S0, count, row, col) ==
          CASE handler_name = "action_insert" -> ReturnInsert(enter_insert_mode(S0))
            [] handler_name = "action_insert_line_start" ->
                   ReturnInsert(enter_insert_mode(move_cursor(S0, get_first_non_blank(S0))))
            [] handler_name = "action_append" ->
                   ReturnInsert(enter_insert_mode(
                       move_cursor(S0, <<row, Min(col + 1, current_line_length(S0))>>)))
            [] handler_name = "action_append_line_end" ->
                   ReturnInsert(enter_insert_mode(
                       move_cursor(S0, <<row, current_line_length(S0)>>)))
            [] handler_name = "action_open_below" ->
                   ReturnInsert(enter_insert_mode(
                       insert_text(move_cursor(S0, <<row, current_line_length(S0)>>),
                                   <<"\n">>)))
            [] handler_name = "action_open_above" ->
                   ReturnInsert(enter_insert_mode(action_open_above(S0)))
            [] handler_name = "action_substitute" ->
                   ReturnInsert(enter_insert_mode(
                       IF col < Len(current_line(S0))
                       THEN delete_range(S0, <<row, col>>, <<row, col + 1>>).S ELSE S0))
            [] handler_name = "action_substitute_line" ->
                   ReturnInsert(enter_insert_mode(action_substitute_line(S0)))
            [] handler_name = "action_change_to_eol" ->
                   ReturnInsert(enter_insert_mode(DeleteToEol(S0)))
            [] handler_name = "action_delete_to_eol" -> Return(DeleteToEol(S0), TRUE)
            [] handler_name = "action_delete_char" ->
                   Return(DeleteCharLoop(S0, row, col, count), TRUE)
            [] handler_name = "action_delete_char_before" ->
                   Return(DeleteCharBeforeLoop(S0, row, col, count), TRUE)
            [] handler_name = "action_paste_after" -> Return(action_paste_after(S0), TRUE)
            [] handler_name = "action_paste_before" -> Return(action_paste_before(S0), TRUE)
            [] handler_name \in {"action_undo", "action_redo"} ->
                   Return(clamp_cursor_to_document(
                              TAUndo(clamp_cursor_to_document(S0), host)), TRUE)
            [] handler_name = "action_join_lines" -> Return(action_join_lines(S0), TRUE)
            [] handler_name = "action_swap_case_char" ->
                   Return(action_swap_case_char(S0), TRUE)
            [] handler_name = "action_escape" ->
                   Return(IF S0.mode # NORMAL
                          THEN notify_mode_change(enter_mode(S0, NORMAL)) ELSE S0, TRUE)
            [] OTHER -> Return(S0, FALSE)
        Counted(c) ==
            Act([c.S EXCEPT !.trace.action = handler_name, !.trace.count = c.count],
                c.count, cursor_row(S), cursor_col(S))
    IN Counted(consume_count(S))

enter_command_mode(S) == notify_mode_change(enter_mode(command_start(S), COMMAND))

\* a variant in which the visual block entry has a handler
execute_mode_switch_block(S, handler_name) ==
    CASE handler_name = "mode_visual" -> Return(enter_visual_mode(S, FALSE), TRUE)
      [] handler_name = "mode_visual_line" -> Return(enter_visual_mode(S, TRUE), TRUE)
      [] handler_name = "mode_visual_block" ->
             Return(notify_mode_change(start_visual(S, S.cursor, VISUAL_BLOCK)), TRUE)
      [] handler_name = "mode_command" ->
             [enter_command_mode(S) EXCEPT
                 !.result = [KeyResult(TRUE) EXCEPT !.show_command_line = TRUE,
                                                    !.command_text = ":"]]
      [] OTHER -> Return(S, FALSE)


execute_mode_switch(S, handler_name) ==
    CASE handler_name = "mode_visual" -> Return(enter_visual_mode(S, FALSE), TRUE)
      [] handler_name = "mode_visual_line" -> Return(enter_visual_mode(S, TRUE), TRUE)
      [] handler_name = "mode_command" ->
             [enter_command_mode(S) EXCEPT
                 !.result = [KeyResult(TRUE) EXCEPT !.show_command_line = TRUE,
                                                    !.command_text = ":"]]
      [] OTHER -> Return(S, FALSE)

handle_key_buffer(S, key) ==
    LET Sequence(S1, sequence, motion, operator) ==
            IF motion # <<>> THEN execute_motion(S1, motion[2])
            ELSE IF operator # <<>> THEN start_operator(S1, operator[2], sequence)
            ELSE Return(S1, TRUE)
    IN Sequence([S EXCEPT !.key_buffer = <<>>], S.key_buffer \o <<key>>,
                get_motion(S.key_buffer \o <<key>>), get_operator(S.key_buffer \o <<key>>))

handle_normal_mode(S, key, host) ==
    LET Bound(binding) ==
            IF binding = <<>>
            THEN (IF key = "g" THEN Return([S EXCEPT !.key_buffer = <<"g">>], TRUE)
                  ELSE Return(S, FALSE))
            ELSE CASE binding[1] = BindingType_MOTION -> execute_motion(S, binding[2])
                   [] binding[1] = BindingType_OPERATOR ->
                          start_operator(S, binding[2], <<key>>)
                   [] binding[1] = BindingType_ACTION ->
                          execute_action(S, binding[2], host)
                   [] binding[1] = BindingType_MODE_SWITCH ->
                          execute_mode_switch(S, binding[2])
                   [] binding[1] = BindingType_PENDING ->
                          Return([S EXCEPT !.pending_char_cmd = key], TRUE)
        Digit(d) == IF d.consumed THEN Return(d.S, TRUE)
                    ELSE Bound(lookup(key, "normal"))
    IN IF S.pending_char_cmd # "" THEN handle_pending_char(S, key)
       ELSE IF S.key_buffer # <<>> THEN handle_key_buffer(S, key)
       ELSE Digit(accumulate_digit(S, key))

execute_visual_motion(S, handler_name) ==
    LET Select(S1, r, anchor_row, dest_row) ==
            IF r.failed THEN Return(S1, TRUE)
            ELSE IF S1.mode = VISUAL_LINE /\ S1.visual_anchor # <<>>
                 THEN (IF anchor_row <= dest_row
                       THEN Return(set_selection(S1, <<anchor_row, 0>>,
                                       <<dest_row, Len(S1.lines[dest_row + 1])>>), TRUE)
                       ELSE Return(set_selection(S1,
                                       <<anchor_row, Len(S1.lines[anchor_row + 1])>>,
                                       <<dest_row, 0>>), TRUE))
            ELSE Return(move_cursor_select(S1, r.position), TRUE)
        Traced(S1, r) == Select(S1, r, S1.visual_anchor[1], r.position[1])
        Moved(r, count) == Traced(TraceMotion(r.S, handler_name, r, count), r)
        Counted(c) == Moved(call_motion(handler_name, c.S, c.count), c.count)
    IN IF handler_name \notin MOTION_HANDLERS THEN Return(S, FALSE)
       ELSE Counted(consume_count(S))

execute_visual_operator(S, handler_name, linewise) ==
    LET Exited(S1, enter_insert) ==
            IF enter_insert THEN ReturnInsert(enter_insert_mode(S1))
            ELSE Return(S1, TRUE)
        Done(r, start, end, obj_type) ==
            Exited(exit_visual_mode(TraceOperator(r.S, handler_name, start, end, obj_type)),
                   r.enter_insert)
        Selection(start, end, obj_type) ==
            Done(call_operator(handler_name, S, start, end, obj_type), start, end, obj_type)
    IN IF S.visual_anchor = <<>> THEN Return(exit_visual_mode(S), TRUE)
       ELSE Selection(PosMin(S.visual_anchor, S.cursor), PosMax(S.visual_anchor, S.cursor),
                      IF linewise THEN LINEWISE ELSE INCLUSIVE)

execute_visual_action(S, handler_name, linewise) ==
    LET Target(start, end, line_len) ==
            IF handler_name = "action_visual_insert"
            THEN (IF linewise THEN <<start[1], 0>> ELSE start)
            ELSE IF handler_name = "action_visual_append"
            THEN (IF linewise THEN <<end[1], line_len>>
                  ELSE <<end[1], Min(end[2] + 1, line_len)>>)
            ELSE S.cursor
        Selection(start, end) ==
            ReturnInsert(enter_insert_mode(
                move_cursor(exit_visual_mode([S EXCEPT !.trace.action = handler_name]),
                            Target(start, end, Len(S.lines[end[1] + 1])))))
    IN IF S.visual_anchor = <<>> THEN Return(exit_visual_mode(S), TRUE)
       ELSE Selection(PosMin(S.visual_anchor, S.cursor), PosMax(S.visual_anchor, S.cursor))

handle_visual_key_buffer(S, key) ==
    LET Sequence(S1, motion) ==
            IF motion # <<>> THEN execute_visual_motion(S1, motion[2])
            ELSE Return(S1, TRUE)
    IN Sequence([S EXCEPT !.key_buffer = <<>>], get_motion(S.key_buffer \o <<key>>))

\* _handle_visual_mode (linewise FALSE) and _handle_visual_line_mode (TRUE)
HandleVisual(S, key, linewise) ==
    LET Motion(motion) ==
            IF key = "g" THEN Return([S EXCEPT !.key_buffer = <<"g">>], TRUE)
            ELSE IF motion # <<>> THEN execute_visual_motion(S, motion[2])
            ELSE Return(S, FALSE)
        Operator(name) ==
            IF name # "" THEN execute_visual_operator(S, name, linewise)
            ELSE Motion(get_motion(<<key>>))
        Action(action) ==
            IF action # <<>> THEN execute_visual_action(S, action[2], linewise)
            ELSE Operator(IF key = "x" THEN "operator_delete"
                          ELSE IF key = "s" THEN "operator_change"
                          ELSE IF get_operator(<<key>>) # <<>>
                               THEN get_operator(<<key>>)[2]
                          ELSE "")
        Digit(d) ==
            IF d.consumed THEN Return(d.S, TRUE)
            ELSE IF key \in ESCAPE_KEYS THEN Return(exit_visual_mode(S), TRUE)
            ELSE IF key = (IF linewise THEN "V" ELSE "v")
                 THEN Return(exit_visual_mode(S), TRUE)
            ELSE IF key = (IF linewise THEN "v" ELSE "V")
                 THEN Return(notify_mode_change(
                                 enter_mode(S, IF linewise THEN VISUAL ELSE VISUAL_LINE)),
                             TRUE)
            ELSE Action(get_visual_action(<<key>>))
    IN IF S.key_buffer # <<>> THEN handle_visual_key_buffer(S, key)
       ELSE Digit(accumulate_digit(S, key))

handle_visual_mode(S, key) == HandleVisual(S, key, FALSE)

handle_visual_line_mode(S, key) == HandleVisual(S, key, TRUE)

handle_command_mode(S, key) ==
    LET Executed(e) ==
            [notify_mode_change(enter_mode(e.S, NORMAL)) EXCEPT
                !.result = [KeyResult(TRUE) EXCEPT !.command_action = e.result.action,
                                                   !.message = e.result.message],
                !.trace.cmd_error = e.result.error]
        Erased(b) == IF ~b.ok THEN Return(notify_mode_change(enter_mode(b.S, NORMAL)), TRUE)
                     ELSE Return(b.S, TRUE)
    IN IF key \in ESCAPE_KEYS
       THEN Return(notify_mode_change(enter_mode(command_cancel(S), NORMAL)), TRUE)
       ELSE IF key = "enter" THEN Executed(command_execute(S))
       ELSE IF key = "backspace" THEN Erased(command_backspace(S))
       ELSE IF IsChar(key) THEN Return(add_char(S, key), TRUE)
       ELSE Return(S, TRUE)

-----------------------------------------------------------------------------
(* The host.  A key the engine does not consume goes on to the TextArea,    *)
(* which edits the text only while it is writable, that is in Insert mode.  *)

\* TextArea's own handling of a printable key, Enter and Backspace
TAOnKey(S, key) ==
    LET Typed(r) == [S EXCEPT !.lines = r.lines, !.cursor = r.end_location,
                              !.anchor = r.end_location]
        Edit(top, bottom) ==
            Typed(ReplaceRange(S.lines,
                      IF key # "backspace" \/ top # bottom THEN top
                      ELSE IF top[2] > 0 THEN <<top[1], top[2] - 1>>
                      ELSE IF top[1] > 0 THEN <<top[1] - 1, Len(S.lines[top[1]])>>
                      ELSE top,
                      bottom,
                      IF key = "enter" THEN <<"\n">>
                      ELSE IF key = "backspace" THEN <<>> ELSE <<key>>))
    IN IF IsChar(key) \/ key \in {"enter", "backspace"}
       THEN Edit(PosMin(S.anchor, S.cursor), PosMax(S.anchor, S.cursor))
       ELSE S

host_on_key(S, key) ==
    IF ~S.result.consumed /\ S.notified = INSERT THEN TAOnKey(S, key) ELSE S

-----------------------------------------------------------------------------
(* The state machine: the host delivers one key at a time to handle_key.    *)

State ==
    [lines |-> lines, cursor |-> cursor, anchor |-> anchor, mode |-> mode,
     pending_operator |-> pending_operator, operator_count |-> operator_count,
     motion_count |-> motion_count, input_buffer |-> input_buffer,
     current_register |-> current_register, registers |-> registers,
     visual_anchor |-> visual_anchor, last_char_search |-> last_char_search,
     last_char_search_cmd |-> last_char_search_cmd, key_buffer |-> key_buffer,
     pending_char_cmd |-> pending_char_cmd, command_buffer |-> command_buffer,
     notified |-> notified, result |-> result, trace |-> trace]

Snapshot == [lines |-> lines, cursor |-> cursor, anchor |-> anchor]

\* what TextArea.undo or TextArea.redo may restore: nothing, or earlier contents
UndoOutcomes(key) ==
    IF key \in {"u", "ctrl+r"} THEN {Snapshot} \cup edit_history ELSE {Snapshot}

\* the keys whose native handling by a writable TextArea is modelled
InsertKeys == {k \in keys : k \in ESCAPE_KEYS \/ IsChar(k) \/ k \in {"enter", "backspace"}}

WithinBounds(S) ==
    /\ Len(S.lines) <= MaxLines
    /\ \A i \in 1..Len(S.lines) : Len(S.lines[i]) <= MaxLineLen
    /\ Len(S.input_buffer) <= MaxDigits
    /\ Len(S.command_buffer) <= MaxCmdLen

\* the engine's state when handle_key is entered
Received == [State EXCEPT !.trace = EmptyTrace]

\* the key has been handled and S is the state it left
Deliver(S, key) ==
    /\ nkeys < budget
    /\ WithinBounds(S)
    /\ lines' = S.lines
    /\ cursor' = S.cursor
    /\ anchor' = S.anchor
    /\ mode' = S.mode
    /\ pending_operator' = S.pending_operator
    /\ operator_count' = S.operator_count
    /\ motion_count' = S.motion_count
    /\ input_buffer' = S.input_buffer
    /\ current_register' = S.current_register
    /\ registers' = S.registers
    /\ visual_anchor' = S.visual_anchor
    /\ last_char_search' = S.last_char_search
    /\ last_char_search_cmd' = S.last_char_search_cmd
    /\ key_buffer' = S.key_buffer
    /\ pending_char_cmd' = S.pending_char_cmd
    /\ command_buffer' = S.command_buffer
    /\ notified' = S.notified
    /\ result' = S.result
    /\ trace' = S.trace
    /\ lastKey' = key
    /\ nkeys' = nkeys + 1
    /\ edit_history' = IF S.lines # lines THEN edit_history \cup {Snapshot}
                       ELSE edit_history
    /\ UNCHANGED <<keys, budget>>

\* handle_key dispatches on the mode; each branch is one action, followed by
\* the host's own handling of a key the engine did not consume

InsertKey ==
    /\ mode = INSERT
    /\ \E key \in InsertKeys :
          Deliver(host_on_key(handle_insert_mode(Received, key), key), key)

NormalKey ==
    /\ mode = NORMAL
    /\ \E key \in keys : \E host \in UndoOutcomes(key) :
          Deliver(host_on_key(handle_normal_mode(Received, key, host), key), key)

VisualKey ==
    /\ mode = VISUAL
    /\ \E key \in keys :
          Deliver(host_on_key(handle_visual_mode(Received, key), key), key)

VisualLineKey ==
    /\ mode = VISUAL_LINE
    /\ \E key \in keys :
          Deliver(host_on_key(handle_visual_line_mode(Received, key), key), key)

OperatorPendingKey ==
    /\ mode = OPERATOR_PENDING
    /\ \E key \in keys :
          Deliver(host_on_key(handle_operator_pending(Received, key), key), key)

CommandKey ==
    /\ mode = COMMAND
    /\ \E key \in keys :
          Deliver(host_on_key(handle_command_mode(Received, key), key), key)

Next ==
    \/ InsertKey
    \/ NormalKey
    \/ VisualKey
    \/ VisualLineKey
    \/ OperatorPendingKey
    \/ CommandKey

\* the engine and the TextArea right after construction, on the text ls with
\* the cursor at cur, in a run that delivers n keys out of ks
Start(ls, cur, ks, n) ==
    /\ lines = ls
    /\ cursor = cur
    /\ anchor = cur
    /\ mode = NORMAL
    /\ pending_operator = <<>>
    /\ operator_count = 1
    /\ motion_count = 1
    /\ input_buffer = <<>>
    /\ current_register = UNNAMED
    /\ registers = InitialRegisters
    /\ visual_anchor = <<>>
    /\ last_char_search = ""
    /\ last_char_search_cmd = ""
    /\ key_buffer = <<>>
    /\ pending_char_cmd = ""
    /\ command_buffer = <<>>
    /\ notified = NORMAL
    /\ result = KeyResult(FALSE)
    /\ trace = EmptyTrace
    /\ lastKey = ""
    /\ nkeys = 0
    /\ keys = ks
    /\ edit_history = {}
    /\ budget = n

-----------------------------------------------------------------------------
(* The runs that are explored.  A scenario is a text, the cursor positions  *)
(* a run may start from and the keys the host may deliver.                  *)

FIVE_LINES == <<<<"a">>, <<"b">>, <<"c">>, <<"d">>, <<"e">>>>
TWO_WORDS == <<<<"a", "b", " ", "c", "d">>, <<"e", "f">>>>
EMPTY_FIRST == <<<<>>, <<"e", "f">>>>
FOO_CALL == <<<<"f", "o", "o", "(", "b", "a", "r", ",", " ", "b", "a", "z", ")">>>>
NESTED_CALL == <<<<"f", "(", "a", "(", "b", ")", "c", ")">>>>
ONE_WORD == <<<<"a", "b", "c">>>>
SELECT_USERS == <<<<"S", "E", "L", "E", "C", "T", " ", "*", " ", "F", "R", "O", "M", " ", "u", "s", "e", "r", "s">>>>
DOTTED == <<<<"a", ".", "b", " ", " ", "c", "_", "d">>, <<" ", " ", "x", ";">>>>
BLANK_SECOND == <<<<"a">>, <<" ", " ">>>>
MIXED == <<<<"a", "b", ",", " ", "c">>, <<>>, <<"d">>>>
FIND_LINE == <<<<"a", "x", "b", "x", "c">>>>

\* every position a Normal-mode cursor can rest on
NormalPositions(ls) ==
    {<<r, c>> : r \in 0..(Len(ls) - 1), c \in 0..MaxLineLen} \cap
    {p \in (0..(Len(ls) - 1)) \X (0..MaxLineLen) : p[2] <= Max(0, Len(ls[p[1] + 1]) - 1)}

Scenario(ls, cursors, ks) == [lines |-> ls, cursors |-> cursors, keys |-> ks]

\* keys that lead into every mode of the engine
MODE_KEYS == {"i", "v", "V", "d", ":", "escape"}

EditScenarios ==
    { Scenario(FIVE_LINES, {<<0, 0>>, <<3, 0>>}, {"3", "d", "y", "c", ">", "p"}),
      Scenario(TWO_WORDS, NormalPositions(TWO_WORDS), {"v", "l", "y", "p", "w", "d"}),
      Scenario(TWO_WORDS, {<<0, 0>>, <<1, 1>>}, {"V", "j", "y", "p", "d", "k"}),
      Scenario(EMPTY_FIRST, {<<0, 0>>, <<1, 0>>}, {"V", "y", "p", "j", "x", "a"}),
      Scenario(FOO_CALL, {<<0, 5>>, <<0, 4>>, <<0, 11>>}, {"d", "i", "(", "a", "y", "escape"}),
      Scenario(NESTED_CALL, NormalPositions(NESTED_CALL), {"d", "i", "(", ")", "b"}),
      Scenario(ONE_WORD, NormalPositions(ONE_WORD), {"3", "x", "X", "D", "C", "escape", "$"}),
      Scenario(TWO_WORDS, {<<0, 1>>}, MODE_KEYS \cup {"z", "enter"}) }

MotionScenarios ==
    { Scenario(SELECT_USERS, {<<0, 0>>}, {"w", "2"}),
      Scenario(DOTTED, NormalPositions(DOTTED), {"w", "W", "b"}),
      Scenario(MIXED, NormalPositions(MIXED), {"w", "e", "j", "k", "2"}),
      Scenario(BLANK_SECOND, NormalPositions(BLANK_SECOND), {"w", "W", "$", "h", "l"}),
      Scenario(TWO_WORDS, NormalPositions(TWO_WORDS), {"f", "t", "c", ";", ",", "G"}),
      Scenario(TWO_WORDS, NormalPositions(TWO_WORDS), {"0", "^", "g", "_", "B", "E"}),
      Scenario(FIVE_LINES, {<<0, 0>>, <<1, 0>>}, {"1", "0", "2", "j", "k", "G"}),
      Scenario(FIND_LINE, NormalPositions(FIND_LINE), {"f", "t", "F", "x", ";", ","}),
      Scenario(TWO_WORDS, {<<0, 3>>, <<1, 1>>}, {"0", "1", "l", "h", "$", "g"}),
      Scenario(DOTTED, {<<0, 0>>}, MODE_KEYS \cup {"w"}) }

CommandScenarios ==
    { Scenario(ONE_WORD, {<<0, 0>>}, {":", "w", "q", "Q", "enter"}),
      Scenario(ONE_WORD, {<<0, 0>>}, {":", "q", "!", " ", "enter"}),
      Scenario(ONE_WORD, {<<0, 0>>}, {":", "x", "X", "h", "enter", "backspace"}),
      Scenario(ONE_WORD, {<<0, 0>>}, {":", "z", " ", "w", "enter"}),
      Scenario(TWO_WORDS, {<<0, 3>>}, {"x", ":", "w", "enter", "backspace", "tab"}),
      Scenario(ONE_WORD, {<<0, 0>>}, MODE_KEYS \cup {"enter", "q"}) }

StartFrom(scenarios) ==
    \E sc \in scenarios : \E cur \in sc.cursors : Start(sc.lines, cur, sc.keys, MaxKeys)

Init == StartFrom(EditScenarios)

InitMotion == StartFrom(MotionScenarios)

InitCommand == StartFrom(CommandScenarios)

Spec == Init /\ [][Next]_vars

SpecMotion == InitMotion /\ [][Next]_vars

SpecCommand == InitCommand /\ [][Next]_vars

-----------------------------------------------------------------------------
(* Runs through the visual modes.                                           *)

FOUR_LINES == <<<<"a", "b">>, <<"c", "d", "e">>, <<"f">>, <<"g", "h">>>>
CASED == <<<<"a", "B", " ", "c">>, <<"D", "e">>>>

VisualScenarios ==
    { Scenario(FOUR_LINES, {<<1, 2>>, <<1, 0>>, <<2, 0>>}, {"V", "G", "g", "j", "k"}),
      Scenario(FOUR_LINES, {<<1, 1>>}, {"V", "v", "2", "j", "k", "w", "$"}),
      Scenario(TWO_WORDS, {<<0, 1>>}, {"v", "V", ":", "q", "enter", "l"}),
      Scenario(FOUR_LINES, {<<1, 1>>}, {"v", "V", "g", "2", "escape", "ctrl+["}),
      Scenario(CASED, {<<0, 1>>, <<1, 0>>}, {"v", "V", "g", "u", "U", "~", "l"}),
      Scenario(TWO_WORDS, {<<0, 1>>, <<1, 1>>}, {"v", "V", "d", "y", "x", "l", "k"}),
      Scenario(TWO_WORDS, {<<0, 3>>}, {"v", "V", "c", "s", ">", "<", "j"}),
      Scenario(FOUR_LINES, {<<1, 2>>}, MODE_KEYS \cup {"j"}) }

InitVisual == StartFrom(VisualScenarios)

SpecVisual == InitVisual /\ [][Next]_vars

-----------------------------------------------------------------------------
(* Runs through OperatorPending mode.                                       *)

SEVEN_WORDS == <<<<"a", " ", "b", " ", "c", " ", "d", " ", "e", " ", "f", " ", "g">>>>
QUOTED == <<<<"x", " ", "\"", "a", "b", "\"">>>>

OperatorScenarios ==
    { Scenario(SEVEN_WORDS, {<<0, 0>>, <<0, 2>>}, {"2", "3", "d", "w", "y"}),
      Scenario(SEVEN_WORDS, {<<0, 12>>}, {"2", "3", "d", "b", "c", "h"}),
      Scenario(FIND_LINE, NormalPositions(FIND_LINE), {"d", "f", "t", "F", "x", "y"}),
      Scenario(FIND_LINE, NormalPositions(FIND_LINE), {"d", "f", "T", "z", ";", ","}),
      Scenario(TWO_WORDS, {<<0, 0>>}, {"\"", "a", "y", "w", "x", "p"}),
      Scenario(FIND_LINE, {<<0, 0>>, <<0, 2>>}, {"2", "f", "x", ";", "d", "$"}),
      Scenario(CASED, {<<0, 1>>, <<1, 0>>, <<1, 1>>}, {"g", "u", "U", "~", "j", "k", "G"}),
      Scenario(FOUR_LINES, {<<2, 0>>, <<1, 1>>, <<3, 1>>}, {"d", "y", "c", "g", "2", "k"}),
      Scenario(FOO_CALL, {<<0, 3>>, <<0, 5>>, <<0, 8>>}, {"c", "i", "(", "w", "b", "z"}),
      Scenario(QUOTED, {<<0, 0>>, <<0, 3>>}, {"c", "i", "a", "\"", "$", "z"}),
      Scenario(TWO_WORDS, {<<0, 1>>}, MODE_KEYS \cup {"w"}) }

InitOperator == StartFrom(OperatorScenarios)

SpecOperator == InitOperator /\ [][Next]_vars

(* Runs through Insert mode. *)
InsertScenarios ==
    { Scenario(ONE_WORD, NormalPositions(ONE_WORD),
               {"i", "a", "z", "escape", "ctrl+[", "ctrl+c", "backspace"}),
      Scenario(EMPTY_FIRST, {<<0, 0>>, <<1, 1>>}, {"i", "A", "escape", "enter", "z"}),
      Scenario(TWO_WORDS, {<<0, 2>>}, {"y", "i", "z", "escape", "p"}),
      Scenario(TWO_WORDS, {<<0, 1>>}, MODE_KEYS \cup {"z"}) }
InitInsert == StartFrom(InsertScenarios)
SpecInsert == InitInsert /\ [][Next]_vars

(* Runs through undo and redo. *)
UndoScenarios ==
    { Scenario(ONE_WORD, NormalPositions(ONE_WORD), {"A", "z", "escape", "u", "ctrl+r", "D"}),
      Scenario(ONE_WORD, {<<0, 1>>}, {"i", "enter", "escape", "u", "j", "3"}),
      Scenario(TWO_WORDS, {<<0, 4>>, <<1, 1>>}, {"x", "J", "u", "ctrl+r", "j", "$"}),
      Scenario(TWO_WORDS, {<<0, 1>>}, MODE_KEYS \cup {"u"}) }
InitUndo == StartFrom(UndoScenarios)
SpecUndo == InitUndo /\ [][Next]_vars

(* Runs through the yank operator. *)
YankScenarios ==
    { Scenario(TWO_WORDS, NormalPositions(TWO_WORDS), {"v", "l", "y", "w", "e", "$"}),
      Scenario(TWO_WORDS, {<<0, 0>>, <<1, 1>>}, {"V", "j", "y", "k", "2", "G"}),
      Scenario(FOO_CALL, {<<0, 5>>}, {"y", "i", "a", "(", "w", "p"}),
      Scenario(TWO_WORDS, {<<0, 1>>}, MODE_KEYS \cup {"y"}) }
InitYank == StartFrom(YankScenarios)
SpecYank == InitYank /\ [][Next]_vars

(* Runs through the cancelling of a pending operator. *)
CancelScenarios ==
    { Scenario(SEVEN_WORDS, {<<0, 12>>}, {"2", "d", "c", "h", "z", "y"}),
      Scenario(FOO_CALL, {<<0, 5>>}, {"c", "d", "i", "a", "(", "z", "x"}),
      Scenario(FIND_LINE, {<<0, 0>>, <<0, 3>>}, {"d", "g", "x", "p", "u", ":", "enter"}),
      Scenario(TWO_WORDS, {<<0, 1>>}, MODE_KEYS \cup {"w"}) }
InitCancel == StartFrom(CancelScenarios)
SpecCancel == InitCancel /\ [][Next]_vars

(* Runs through the indent and dedent operators. *)
INDENTED == <<<<" ", " ", "a">>, <<>>, <<"\t", "b">>, <<" ", " ", " ", " ", " ", "d">>>>
TAB_AFTER_SPACE == <<<<"a">>, <<" ", "\t", "c">>>>
IndentScenarios ==
    { Scenario(INDENTED, {<<0, 2>>, <<1, 0>>, <<2, 1>>}, {">", "<", "j", "k", "V", "G"}),
      Scenario(TAB_AFTER_SPACE, {<<0, 0>>, <<1, 2>>}, {">", "<", "j", "k", "V"}),
      Scenario(TWO_WORDS, {<<0, 1>>}, MODE_KEYS \cup {">", "j"}) }
InitIndent == StartFrom(IndentScenarios)
SpecIndent == InitIndent /\ [][Next]_vars

(* Runs through the end-of-line shorthands D and C. *)
EolScenarios ==
    { Scenario(ONE_WORD, NormalPositions(ONE_WORD), {"D", "C", "d", "c", "$", "escape"}),
      Scenario(EMPTY_FIRST, {<<0, 0>>, <<1, 0>>}, {"D", "C", "x", "j", "k", "escape"}),
      Scenario(MIXED, NormalPositions(MIXED), {"D", "C", "y", "w", "j", "escape"}),
      Scenario(TWO_WORDS, {<<0, 1>>}, MODE_KEYS \cup {"D"}) }
InitEol == StartFrom(EolScenarios)
SpecEol == InitEol /\ [][Next]_vars

(* Runs through the quote text objects. *)
TWO_STRINGS == <<<<"\"", "a", "\"", " ", "b", " ", "\"", "c", "\"">>>>
OPEN_STRING == <<<<"a", " ", "'", "b">>, <<"x", "'", "y", "'", "z">>>>
QuoteScenarios ==
    { Scenario(TWO_STRINGS, NormalPositions(TWO_STRINGS), {"y", "d", "i", "a", "\""}),
      Scenario(OPEN_STRING, NormalPositions(OPEN_STRING), {"y", "c", "i", "a", "'"}),
      Scenario(QUOTED, NormalPositions(QUOTED), {"y", "i", "a", "\"", "'", "l"}),
      Scenario(QUOTED, {<<0, 3>>}, MODE_KEYS \cup {"\""}) }
InitQuote == StartFrom(QuoteScenarios)
SpecQuote == InitQuote /\ [][Next]_vars

(* Runs through the key bound to the visual block mode. *)
BlockScenarios ==
    { Scenario(TWO_WORDS, NormalPositions(TWO_WORDS), {"ctrl+v", "v", "V", "j", "2", "escape"}),
      Scenario(ONE_WORD, {<<0, 0>>, <<0, 2>>}, {"ctrl+v", "f", "g", "r", "d", "R", "c"}),
      Scenario(TWO_WORDS, {<<0, 1>>}, MODE_KEYS \cup {"ctrl+v", "enter"}) }
InitBlock == StartFrom(BlockScenarios)
SpecBlock == InitBlock /\ [][Next]_vars

(* Runs through the prefixes typed while an operator is pending. *)
PrefixScenarios ==
    { Scenario(TWO_WORDS, {<<0, 0>>, <<0, 3>>}, {"d", "i", "g", "f", "w", "escape", "j"}),
      Scenario(FOO_CALL, {<<0, 5>>}, {"y", "a", "i", "(", "z", "ctrl+c", "l"}),
      Scenario(TWO_WORDS, {<<0, 1>>}, MODE_KEYS \cup {"j"}) }
InitPrefix == StartFrom(PrefixScenarios)
SpecPrefix == InitPrefix /\ [][Next]_vars

(* Runs through the forward word motions. *)
WordScenarios ==
    { Scenario(ONE_WORD, NormalPositions(ONE_WORD), {"w", "W", "e", "E", "d", "2"}),
      Scenario(TWO_WORDS, NormalPositions(TWO_WORDS), {"w", "e", "d", "y", "j"}),
      Scenario(DOTTED, NormalPositions(DOTTED), {"W", "E", "w", "e", "c"}),
      Scenario(BLANK_SECOND, NormalPositions(BLANK_SECOND), {"w", "W", "e", "E", "d"}),
      Scenario(TWO_WORDS, {<<0, 1>>}, MODE_KEYS \cup {"w"}) }
InitWord == StartFrom(WordScenarios)
SpecWord == InitWord /\ [][Next]_vars

(* Runs through the counted character deletes x and X. *)
CharDeleteScenarios ==
    { Scenario(TWO_WORDS, NormalPositions(TWO_WORDS), {"2", "3", "x", "X", "P"}),
      Scenario(ONE_WORD, NormalPositions(ONE_WORD), {"2", "x", "X", "P", "$", "0"}),
      Scenario(TWO_WORDS, {<<0, 1>>}, MODE_KEYS \cup {"x"}) }
InitCharDelete == StartFrom(CharDeleteScenarios)
SpecCharDelete == InitCharDelete /\ [][Next]_vars

(* Runs through the bracket text objects. *)
EMPTY_PAIRS == <<<<"f", "(", ")", "[", "x", "]">>>>
BracketScenarios ==
    { Scenario(NESTED_CALL, NormalPositions(NESTED_CALL), {"y", "i", "a", "(", ")", "b"}),
      Scenario(EMPTY_PAIRS, NormalPositions(EMPTY_PAIRS), {"y", "d", "i", "a", "(", "[", "]"}),
      Scenario(FOO_CALL, {<<0, 0>>, <<0, 3>>, <<0, 8>>, <<0, 12>>}, {"c", "i", "a", "(", "{", "<"}),
      Scenario(FOO_CALL, {<<0, 5>>}, MODE_KEYS \cup {"("}) }
InitBracket == StartFrom(BracketScenarios)
SpecBracket == InitBracket /\ [][Next]_vars

-----------------------------------------------------------------------------
(* Properties.  They are stated over the text as one string and over        *)
(* positions as offsets in it, not through the operators of the engine.     *)

Text(ls) == JoinLines(ls)

RECURSIVE Offset(_, _)
Offset(ls, pos) ==
    IF pos[1] = 0 \/ Len(ls) = 0 THEN pos[2]
    ELSE Len(ls[1]) + 1 + Offset(Tail(ls), <<pos[1] - 1, pos[2]>>)

InsertAt(t, k, d) == SubSeq(t, 1, k) \o d \o SubSeq(t, k + 1, Len(t))

\* t is u with the piece d put in at some place
TakenOut(t, u, d) ==
    /\ Len(t) = Len(u) + Len(d)
    /\ \E k \in 0..Len(u) : t = InsertAt(u, k, d)

SetMin(s) == CHOOSE x \in s : \A y \in s : x <= y
SetMax(s) == CHOOSE x \in s : \A y \in s : x >= y

\* a position a Normal-mode cursor may rest on
InBounds(ls, pos) ==
    /\ pos[1] \in 0..(Len(ls) - 1)
    /\ pos[2] \in 0..Max(0, Len(ls[pos[1] + 1]) - 1)

\* Normal mode, waiting for a new command
Idle == mode = NORMAL /\ key_buffer = <<>> /\ pending_char_cmd = ""

\* the step is the handling of key k
Handles(k) == lastKey' = k /\ nkeys' = nkeys + 1

\* the document without its rows a..b (an empty document is one empty line)
WithoutRows(ls, a, b) ==
    IF SubSeq(ls, 1, a) \o SubSeq(ls, b + 2, Len(ls)) = <<>> THEN <<<<>>>>
    ELSE SubSeq(ls, 1, a) \o SubSeq(ls, b + 2, Len(ls))

\* the text of the range the last operator was applied to, in the present text
RangeText ==
    IF trace.op_type = LINEWISE
    THEN JoinLines(SubSeq(lines, Min(trace.op_start[1], trace.op_end[1]) + 1,
                          Max(trace.op_start[1], trace.op_end[1]) + 1))
    ELSE SubSeq(Text(lines),
                Offset(lines, PosMin(trace.op_start, trace.op_end)) + 1,
                Offset(lines, PosMax(trace.op_start, trace.op_end))
                    + (IF /\ trace.op_type = INCLUSIVE
                          /\ PosMax(trace.op_start, trace.op_end)[2]
                                < Len(LineAt(lines, PosMax(trace.op_start, trace.op_end)[1]))
                       THEN 1 ELSE 0))

\* C1: in Normal mode an optional count N and the same operator key twice
\* (dd, yy, cc, >>, <<) apply the operator linewise to min(N, line_count - row)
\* lines from the cursor's row; 3 d d on five lines with the cursor on row 0
\* leaves the last two lines, the cursor on row 0 and the mode Normal.
C1_DoubleOperator ==
    [][\A op \in {"d", "y", "c", ">", "<"} :
         (/\ mode = OPERATOR_PENDING
          /\ pending_operator = <<op>>
          /\ key_buffer = <<>>
          /\ input_buffer = <<>>
          /\ lastKey = op
          /\ Handles(op))
         => /\ trace'.operator = get_operator(<<op>>)[2]
            /\ trace'.op_type = LINEWISE
            /\ trace'.op_start[1] = cursor[1]
            /\ trace'.op_end[1]
                 = cursor[1] + Min(operator_count, Len(lines) - cursor[1]) - 1
            /\ op = "d" =>
                 /\ lines' = WithoutRows(lines, cursor[1],
                                 cursor[1] + Min(operator_count, Len(lines) - cursor[1]) - 1)
                 /\ mode' = NORMAL
                 /\ cursor'[1] = Min(cursor[1], Len(lines') - 1)
            /\ op = "y" =>
                 /\ lines' = lines
                 /\ mode' = NORMAL
                 /\ registers'[UNNAMED]
                      = Register(JoinLines(SubSeq(lines, cursor[1] + 1,
                                     cursor[1] + Min(operator_count, Len(lines) - cursor[1]))),
                                 TRUE)
            /\ (op = "d" /\ lines = FIVE_LINES /\ cursor[1] = 0 /\ operator_count = 3) =>
                 /\ lines' = <<<<"d">>, <<"e">>>>
                 /\ cursor'[1] = 0
                 /\ mode' = NORMAL]_vars

\* C2: after the yank operator has run on a range, from a motion or a text
\* object in OperatorPending or from a Visual or VisualLine selection, the
\* unnamed register and register 0 both hold exactly the yanked text.
C2_YankRegisters ==
    trace.operator = "operator_yank" =>
        /\ registers[UNNAMED].content = RangeText
        /\ registers["0"].content = RangeText

\* C3: after a delete (d with a motion, a text object or a visual selection,
\* and the actions x, X, D, C) the unnamed register equals the text that was
\* removed and register 0 keeps the value it had.
C3_DeleteRegisters ==
    [][(/\ nkeys' = nkeys + 1
        /\ \/ trace'.operator = "operator_delete"
           \/ trace'.action \in {"action_delete_char", "action_delete_char_before",
                                 "action_delete_to_eol", "action_change_to_eol"}
        /\ lines' # lines)
       => /\ \/ TakenOut(Text(lines), Text(lines'), registers'[UNNAMED].content)
             \/ /\ registers'[UNNAMED].linewise
                /\ \/ TakenOut(Text(lines), Text(lines'),
                               registers'[UNNAMED].content \o <<"\n">>)
                   \/ TakenOut(Text(lines), Text(lines'),
                               <<"\n">> \o registers'[UNNAMED].content)
          /\ registers'["0"] = registers["0"]]_vars

\* C4: every motion, with every count, from a cursor that is in bounds returns
\* a position with 0 <= row <= line_count - 1 and
\* 0 <= col <= max(0, len(line[row]) - 1), also on an empty or blank line.
C4_MotionBounds ==
    [][(/\ nkeys' = nkeys + 1
        /\ trace'.motion # ""
        /\ ~trace'.failed
        /\ InBounds(lines, cursor))
       => InBounds(lines, trace'.position)]_vars

\* C5: whenever the keys handled so far leave the engine in Normal mode, the
\* cursor is on a line of the document and not past that line's last character.
C5_NormalCursor == mode = NORMAL => InBounds(lines, cursor)

\* C6: in Normal mode with no pending character request and no buffered prefix
\* Escape is consumed and leaves the mode, the text, the cursor, the registers,
\* the counts and the input buffer as they were.
C6_EscapeIdempotent ==
    [][(Idle /\ Handles("escape"))
       => /\ result'.consumed
          /\ UNCHANGED <<mode, lines, cursor, registers, operator_count,
                         motion_count, input_buffer>>]_vars

\* C7: p right after a yank inserts exactly the yanked text: after a charwise
\* yank one column after the cursor (at the cursor on an empty line), after a
\* linewise yank as whole lines below the cursor's line; the rest of the text
\* stays in order around it.
C7_YankPaste ==
    [][(/\ Idle
        /\ input_buffer = <<>>
        /\ trace.operator = "operator_yank"
        /\ current_register = UNNAMED
        /\ cursor[1] \in 0..(Len(lines) - 1)
        /\ trace.op_type # LINEWISE => InBounds(lines, cursor)
        /\ Handles("p"))
       => IF trace.op_type = LINEWISE
          THEN Text(lines')
                 = InsertAt(Text(lines),
                            Offset(lines, <<cursor[1], Len(lines[cursor[1] + 1])>>),
                            <<"\n">> \o RangeText)
          ELSE Text(lines')
                 = InsertAt(Text(lines),
                            Offset(lines, cursor)
                                + (IF Len(lines[cursor[1] + 1]) = 0 THEN 0 ELSE 1),
                            RangeText)]_vars

\* the three classes of characters that make up the runs of a line
WORD_CHARACTERS == Range(LowerSeq) \cup Range(UpperSeq) \cup Range(DigitSeq) \cup {"_"}

RunClass(c) ==
    IF c \in {" ", "\t"} THEN "whitespace"
    ELSE IF c \in WORD_CHARACTERS THEN "word"
    ELSE "punctuation"

\* the columns after col where a run of word or punctuation characters starts
RunStarts(line, col) ==
    {t \in (col + 1)..(Len(line) - 1) :
        /\ RunClass(line[t + 1]) # "whitespace"
        /\ RunClass(line[t + 1]) # RunClass(line[t])}

\* C8: w skips the rest of the run of the character class under the cursor
\* (whitespace, word, punctuation), then whitespace, and lands on the first
\* character of the next run; on "SELECT * FROM users" from (0,0) three w
\* reach (0,7), (0,9) and (0,14).
C8_WordForward ==
    [][(/\ Idle
        /\ input_buffer = <<>>
        /\ cursor[1] \in 0..(Len(lines) - 1)
        /\ cursor[2] < Len(lines[cursor[1] + 1])
        /\ Handles("w"))
       => /\ RunStarts(lines[cursor[1] + 1], cursor[2]) # {} =>
                cursor' = <<cursor[1], SetMin(RunStarts(lines[cursor[1] + 1], cursor[2]))>>
          /\ lines = SELECT_USERS =>
                /\ cursor = <<0, 0>> => cursor' = <<0, 7>>
                /\ cursor = <<0, 7>> => cursor' = <<0, 9>>
                /\ cursor = <<0, 9>> => cursor' = <<0, 14>>]_vars

\* C8 happens: the third w of the scenario has moved the cursor from (0,9)
C8_Witness ==
    /\ lines = SELECT_USERS
    /\ nkeys = 3
    /\ lastKey = "w"
    /\ trace.motion = "motion_word_forward"
    /\ trace.from = <<0, 9>>
    /\ cursor = <<0, 14>>

\* the opening parenthesis that encloses col, and the one closing it (columns)
Count(line, a, b, ch) == Cardinality({k \in a..b : line[k + 1] = ch})

EnclosingOpens(line, col) ==
    {o \in 0..(col - 1) :
        /\ line[o + 1] = "("
        /\ Count(line, o + 1, col - 1, "(") = Count(line, o + 1, col - 1, ")")}

MatchingCloses(line, o) ==
    {c \in (o + 1)..(Len(line) - 1) :
        /\ line[c + 1] = ")"
        /\ Count(line, o + 1, c - 1, "(") = Count(line, o + 1, c - 1, ")")}

\* the line without its columns a..b
WithoutColumns(line, a, b) == SubSeq(line, 1, a) \o SubSeq(line, b + 2, Len(line))

\* C9: with the cursor strictly inside a pair of parentheses on its line,
\* d i ( removes exactly the text between the matching parentheses, keeps both,
\* stores the removed text in the unnamed register and ends in Normal mode; on
\* "foo(bar, baz)" from column 5 the text becomes "foo()", the cursor column 4.
C9_DeleteInnerParen ==
    [][(/\ mode = OPERATOR_PENDING
        /\ pending_operator = <<"d">>
        /\ key_buffer = <<"i">>
        /\ Handles("(")
        /\ cursor[1] \in 0..(Len(lines) - 1)
        /\ cursor[2] < Len(lines[cursor[1] + 1])
        /\ lines[cursor[1] + 1][cursor[2] + 1] \notin {"(", ")"}
        /\ EnclosingOpens(lines[cursor[1] + 1], cursor[2]) # {}
        /\ MatchingCloses(lines[cursor[1] + 1],
               SetMax(EnclosingOpens(lines[cursor[1] + 1], cursor[2]))) # {})
       => /\ lines' = [lines EXCEPT ![cursor[1] + 1] =
                          WithoutColumns(@,
                              SetMax(EnclosingOpens(@, cursor[2])) + 1,
                              SetMin(MatchingCloses(@,
                                  SetMax(EnclosingOpens(@, cursor[2])))) - 1)]
          /\ registers'[UNNAMED].content
               = SubSeq(lines[cursor[1] + 1],
                        SetMax(EnclosingOpens(lines[cursor[1] + 1], cursor[2])) + 2,
                        SetMin(MatchingCloses(lines[cursor[1] + 1],
                            SetMax(EnclosingOpens(lines[cursor[1] + 1], cursor[2])))))
          /\ mode' = NORMAL
          /\ (lines = FOO_CALL /\ cursor = <<0, 5>>) =>
                /\ lines' = <<<<"f", "o", "o", "(", ")">>>>
                /\ cursor' = <<0, 4>>]_vars

\* the command line without the whitespace around it, and its first token
Trimmed(s) ==
    IF \A i \in 1..Len(s) : isspace(s[i]) THEN <<>>
    ELSE SubSeq(s, SetMin({i \in 1..Len(s) : ~isspace(s[i])}),
                SetMax({i \in 1..Len(s) : ~isspace(s[i])}))

FirstToken(s) ==
    IF \A i \in 1..Len(s) : ~isspace(s[i]) THEN s
    ELSE SubSeq(s, 1, SetMin({i \in 1..Len(s) : isspace(s[i])}) - 1)

FoldCase(s) == [i \in 1..Len(s) |-> lower(s[i])]

\* what the command line is to answer for a first token and the trimmed input
CommandAnswers(token, input, action, message, error) ==
    IF token \in {<<"q">>, <<"q","u","i","t">>}
    THEN action = CMD_QUIT /\ ~error
    ELSE IF token \in {<<"q","!">>, <<"q","u","i","t","!">>}
    THEN action = CMD_QUIT_FORCE /\ ~error
    ELSE IF token \in {<<"w">>, <<"w","r","i","t","e">>}
    THEN action = CMD_WRITE /\ ~error /\ message.text # ""
    ELSE IF token \in {<<"w","q">>, <<"x">>, <<"e","x","i","t">>}
    THEN action = CMD_WRITE_QUIT /\ ~error
    ELSE IF token \in {<<"h">>, <<"h","e","l","p">>}
    THEN action = CMD_NONE /\ ~error /\ message.text # ""
    ELSE action = CMD_NONE /\ error /\ message = Message("Unknown command: ", input)

\* C10 as stated: Enter trims the command line, takes its first token and maps
\* q/quit to Quit, q!/quit! to QuitForce, w/write to Write with a message,
\* wq/x/exit to WriteQuit, h/help to no action with a message, and every other
\* token to no action with error and the message "Unknown command: <input>".
C10_ExactTokens ==
    [][(/\ mode = COMMAND
        /\ Handles("enter")
        /\ Trimmed(command_buffer) # <<>>)
       => CommandAnswers(FirstToken(Trimmed(command_buffer)), Trimmed(command_buffer),
                         result'.command_action, result'.message,
                         trace'.cmd_error)]_vars

\* C10, amended: the same mapping, applied to the first token in lower case
\* (Q, Wq, EXIT are commands too); : w q Enter yields WriteQuit.
C10_FoldedTokens ==
    [][(/\ mode = COMMAND
        /\ Handles("enter")
        /\ Trimmed(command_buffer) # <<>>)
       => /\ CommandAnswers(FoldCase(FirstToken(Trimmed(command_buffer))),
                            Trimmed(command_buffer),
                            result'.command_action, result'.message,
                            trace'.cmd_error)
          /\ command_buffer = <<"w", "q">> => result'.command_action = CMD_WRITE_QUIT]_vars

\* C10 happens: the keys : w q Enter have been handled
C10_Witness ==
    /\ nkeys = 4
    /\ lastKey = "enter"
    /\ mode = NORMAL
    /\ result.command_action = CMD_WRITE_QUIT
    /\ ~trace.cmd_error

C12_VisualLineSnapping ==
    [][(/\ mode = VISUAL_LINE
        /\ visual_anchor # <<>>
        /\ nkeys' = nkeys + 1
        /\ trace'.motion # ""
        /\ ~trace'.failed)
       => /\ mode' = VISUAL_LINE
          /\ lines' = lines
          /\ visual_anchor[1] <= trace'.position[1] =>
                /\ anchor' = <<visual_anchor[1], 0>>
                /\ cursor' = <<trace'.position[1], Len(lines[trace'.position[1] + 1])>>
          /\ visual_anchor[1] > trace'.position[1] =>
                /\ anchor' = <<visual_anchor[1], Len(lines[visual_anchor[1] + 1])>>
                /\ cursor' = <<trace'.position[1], 0>>
          /\ (lines = FOUR_LINES /\ visual_anchor[1] = 1 /\ input_buffer = <<>>
                /\ lastKey' = "G") =>
                (anchor' = <<1, 0>> /\ cursor' = <<3, 2>>)
          /\ (lines = FOUR_LINES /\ visual_anchor[1] = 1 /\ input_buffer = <<>>
                /\ lastKey = "g" /\ lastKey' = "g") =>
                (anchor' = <<1, 3>> /\ cursor' = <<0, 0>>)]_vars

\* C12 happens: V on row 1 at column 2, G to row 3, then g g back to row 0
C12_Witness ==
    /\ lines = FOUR_LINES
    /\ mode = VISUAL_LINE
    /\ visual_anchor = <<1, 2>>
    /\ nkeys = 4
    /\ lastKey = "g"
    /\ trace.motion = "motion_document_start"
    /\ anchor = <<1, 3>>
    /\ cursor = <<0, 0>>

\* the number a sequence of digits denotes
DigitValue(c) == CHOOSE n \in 0..9 : DigitSeq[n + 1] = c

RECURSIVE NumberOf(_)
NumberOf(digits) ==
    IF digits = <<>> THEN 0
    ELSE 10 * NumberOf(SubSeq(digits, 1, Len(digits) - 1)) + DigitValue(digits[Len(digits)])

\* the count typed since the last command key, 1 when there is none
TypedCount == IF input_buffer = <<>> THEN 1 ELSE Max(1, NumberOf(input_buffer))

\* C13: an operator typed with count N before the operator key and count M
\* between the operator key and the motion evaluates the motion with count
\* N * M; d 3 w acts on 3 words, 3 d w on 3 words, 2 d 3 w on 6 words.
C13_CountMultiplication ==
    [][(/\ mode = OPERATOR_PENDING
        /\ nkeys' = nkeys + 1
        /\ trace'.motion # "")
       => /\ trace'.count = operator_count * TypedCount
          /\ (lines = SEVEN_WORDS /\ cursor = <<0, 0>> /\ pending_operator = <<"d">>
                /\ lastKey' = "w" /\ operator_count * TypedCount <= 6) =>
                lines' = <<SubSeq(SEVEN_WORDS[1], 2 * operator_count * TypedCount + 1, 13)>>]_vars

\* the columns of the line after (before) col that hold the character ch
ColumnsAfter(line, col, ch) == {k \in (col + 1)..(Len(line) - 1) : line[k + 1] = ch}
ColumnsBefore(line, col, ch) == {k \in 0..(col - 1) : line[k + 1] = ch}

\* C14: in OperatorPending f, F, t or T makes the engine wait for one
\* character; the next single-character key is the search character and, when
\* it is found, the pending operator is executed on the range from the cursor
\* to the find target (d f x deletes through the next x on the line), the
\* engine returns to Normal and no character request is left pending.
C14_OperatorFindChar ==
    [][(/\ mode = OPERATOR_PENDING
        /\ nkeys' = nkeys + 1
        /\ key_buffer = <<>>)
       => /\ (lastKey' \in {"f", "F", "t", "T"} /\ pending_char_cmd = "") =>
                (mode' = OPERATOR_PENDING /\ pending_char_cmd' = lastKey' /\ lines' = lines)
          /\ (/\ pending_char_cmd \in {"f", "F", "t", "T"}
              /\ lastKey = pending_char_cmd
              /\ lastKey' \in Range(LowerSeq)
              /\ cursor[2] < Len(lines[cursor[1] + 1])
              /\ IF pending_char_cmd \in {"f", "t"}
                 THEN ColumnsAfter(lines[cursor[1] + 1], cursor[2], lastKey') # {}
                 ELSE ColumnsBefore(lines[cursor[1] + 1], cursor[2], lastKey') # {}) =>
                /\ trace'.operator = get_operator(pending_operator)[2]
                /\ pending_char_cmd' = ""
                /\ pending_operator = <<"d">> => mode' = NORMAL
                /\ (pending_operator = <<"d">> /\ pending_char_cmd = "f") =>
                      lines' = [lines EXCEPT ![cursor[1] + 1] =
                                   WithoutColumns(@, cursor[2],
                                       SetMin(ColumnsAfter(@, cursor[2], lastKey')))]]_vars

\* C15: the key : typed in Visual or VisualLine mode is consumed and switches
\* the engine to CommandLine mode with an empty command buffer, as it does
\* from Normal mode.
C15_CommandFromVisual ==
    [][(/\ mode \in {VISUAL, VISUAL_LINE}
        /\ key_buffer = <<>>
        /\ Handles(":"))
       => /\ result'.consumed
          /\ mode' = COMMAND
          /\ command_buffer' = <<>>]_vars

\* C16: the register-select key followed by a letter a-z selects that named
\* register; the yank or delete that follows stores in it the same content as
\* in the unnamed register, and the current register is the unnamed register
\* again afterwards.
C16_NamedRegister ==
    [][(nkeys' = nkeys + 1)
       => /\ (/\ mode = NORMAL
              /\ pending_char_cmd = "\""
              /\ lastKey = "\""
              /\ lastKey' \in Range(LowerSeq)) =>
                /\ current_register' = lastKey'
                /\ mode' = NORMAL
                /\ lines' = lines
          /\ (/\ current_register \in Range(LowerSeq)
              /\ \/ trace'.operator \in {"operator_yank", "operator_delete"}
                 \/ trace'.action \in {"action_delete_char", "action_delete_char_before",
                                       "action_delete_to_eol"}) =>
                /\ current_register \in DOMAIN registers'
                /\ registers'[current_register] = registers'[UNNAMED]
                /\ registers'[UNNAMED].content # <<>>
                /\ current_register' = UNNAMED]_vars


(* C17: in Insert mode every key other than Escape, ctrl+[ and ctrl+c is    *)
(* reported unconsumed and the engine changes neither its own state (mode,  *)
(* counts, registers, prefix buffers) nor the text; Escape and its aliases  *)
(* are consumed, switch to Normal and move the cursor left by exactly one   *)
(* column when its column is above 0 and not at all otherwise.              *)
C17_InsertPassthrough ==
    /\ [](mode = INSERT =>
            \A key \in (keys \cup SPECIAL_KEYS) \ ESCAPE_KEYS :
                LET Untouched(R) ==
                        /\ ~R.result.consumed
                        /\ R.lines = lines /\ R.cursor = cursor /\ R.anchor = anchor
                        /\ R.mode = mode /\ R.registers = registers
                        /\ R.current_register = current_register
                        /\ R.pending_operator = pending_operator
                        /\ R.operator_count = operator_count
                        /\ R.motion_count = motion_count
                        /\ R.input_buffer = input_buffer
                        /\ R.key_buffer = key_buffer
                        /\ R.pending_char_cmd = pending_char_cmd
                IN Untouched(handle_insert_mode(Received, key)))
    /\ [][(mode = INSERT /\ nkeys' = nkeys + 1) =>
            IF lastKey' \in ESCAPE_KEYS
            THEN /\ result'.consumed
                 /\ mode' = NORMAL
                 /\ lines' = lines
                 /\ cursor' = <<cursor[1], IF cursor[2] > 0 THEN cursor[2] - 1 ELSE cursor[2]>>
            ELSE /\ ~result'.consumed
                 /\ UNCHANGED <<mode, registers, current_register, pending_operator,
                                operator_count, motion_count, input_buffer, key_buffer,
                                pending_char_cmd>>]_vars

\* "z" typed at (0,1) went through to the text area, then Escape stepped back
C17_Witness ==
    /\ lines = <<<<"a", "z", "b", " ", "c", "d">>, <<"e", "f">>>>
    /\ nkeys = 3 /\ lastKey = "escape" /\ result.consumed
    /\ mode = NORMAL /\ cursor = <<0, 1>>


\* the character search asked for by the key being handled, <<>> when the key
\* asks for none: <<character, forward>>
AskedSearch ==
    IF pending_char_cmd \in {"f", "F", "t", "T"} /\ lastKey' \notin SPECIAL_KEYS
    THEN <<lastKey', pending_char_cmd \in {"f", "t"}>>
    ELSE IF pending_char_cmd = "" /\ key_buffer = <<>> /\ lastKey' \in {";", ","}
         THEN (IF last_char_search = "" \/ last_char_search_cmd = "" THEN <<"", TRUE>>
               ELSE <<last_char_search,
                      (last_char_search_cmd \in {"f", "t"}) <=> (lastKey' = ";")>>)
         ELSE <<>>

\* the asked search finds nothing: nothing is remembered, or the character
\* occurs fewer times than the count on the asked side of the cursor
SearchFails ==
    /\ AskedSearch # <<>>
    /\ \/ AskedSearch[1] = ""
       \/ Cardinality(IF AskedSearch[2]
                      THEN ColumnsAfter(lines[cursor[1] + 1], cursor[2], AskedSearch[1])
                      ELSE ColumnsBefore(lines[cursor[1] + 1], cursor[2], AskedSearch[1]))
            < operator_count * TypedCount

\* C18: an f, F, t or T whose character does not occur count times, and a ;
\* or , with no remembered search, fail: in Normal mode the cursor, the text
\* and the registers are unchanged; in OperatorPending the operator is
\* cancelled, the mode returns to Normal and text, cursor and registers are
\* unchanged.
C18_FailedMotion ==
    [][(/\ mode \in {NORMAL, OPERATOR_PENDING}
        /\ nkeys' = nkeys + 1
        /\ SearchFails)
       => /\ UNCHANGED <<lines, cursor, registers>>
          /\ mode' = NORMAL
          /\ pending_operator' = <<>>]_vars


\* C19: from every mode, and whatever prefix, count or pending request is
\* outstanding, the state after Escape (or ctrl+[ or ctrl+c) has mode Normal;
\* from the modes other than Normal the key is consumed and the text is not
\* modified.
C19_EscapeReachesNormal ==
    [][(nkeys' = nkeys + 1 /\ lastKey' \in ESCAPE_KEYS)
       => /\ mode' = NORMAL
          /\ mode # NORMAL => (result'.consumed /\ lines' = lines)]_vars


\* the offsets, in the text as one string, of the range the operator of the
\* step is applied to: <<first offset, offset after the last>>
ChangedRange ==
    LET lo == PosMin(trace'.op_start, trace'.op_end)
        hi == PosMax(trace'.op_start, trace'.op_end)
    IN <<Offset(lines, lo),
         Offset(lines, hi)
           + (IF trace'.op_type = INCLUSIVE /\ hi[2] < Len(lines[hi[1] + 1]) THEN 1 ELSE 0)>>

\* C20: after c with any successful motion or text object, also one that
\* starts right of the cursor (c i ( with the cursor on the opening bracket,
\* c i " with the cursor before the first quote), the range is deleted as d
\* would delete it, the mode is Insert, the result asks for Insert and the
\* cursor is at the start of the deleted range.
C20_ChangeLandsAtStart ==
    [][(/\ mode = OPERATOR_PENDING
        /\ pending_operator = <<"c">>
        /\ nkeys' = nkeys + 1
        /\ trace'.operator = "operator_change"
        /\ trace'.op_type # LINEWISE)
       => /\ Text(lines') = SubSeq(Text(lines), 1, ChangedRange[1])
                              \o SubSeq(Text(lines), ChangedRange[2] + 1, Len(Text(lines)))
          /\ mode' = INSERT
          /\ result'.enter_insert
          /\ cursor' = PosMin(trace'.op_start, trace'.op_end)
          /\ (lines = FOO_CALL /\ cursor = <<0, 3>> /\ key_buffer = <<"i">> /\ lastKey' = "(") =>
                (lines' = <<<<"f", "o", "o", "(", ")">>>> /\ cursor' = <<0, 4>>)
          /\ (lines = QUOTED /\ cursor = <<0, 0>> /\ key_buffer = <<"i">> /\ lastKey' = "\"") =>
                (lines' = <<<<"x", " ", "\"", "\"">>>> /\ cursor' = <<0, 3>>)]_vars


\* the operator a key stands for in the visual modes, "" for other keys
VisualOperatorOf(prefix, k) ==
    IF prefix = <<>>
    THEN (CASE k \in {"d", "x"} -> "operator_delete"
            [] k \in {"c", "s"} -> "operator_change"
            [] k = "y" -> "operator_yank"
            [] k = ">" -> "operator_indent"
            [] k = "<" -> "operator_dedent"
            [] OTHER -> "")
    ELSE IF prefix = <<"g">>
    THEN (CASE k = "u" -> "operator_lowercase"
            [] k = "U" -> "operator_uppercase"
            [] k = "~" -> "operator_swap_case"
            [] OTHER -> "")
    ELSE ""

\* C21: in Visual and VisualLine mode every operator key (d, c, y, >, <, the
\* two-key operators gu, gU, g~) and the shortcuts x and s apply the operator
\* at once to the range between the anchor and the cursor (inclusive of the
\* last character in Visual, whole lines in VisualLine), never pass through
\* OperatorPending, clear the visual anchor and leave the mode Normal (Insert
\* for c and s).
C21_VisualOperators ==
    [][(/\ mode \in {VISUAL, VISUAL_LINE}
        /\ visual_anchor # <<>>
        /\ nkeys' = nkeys + 1
        /\ VisualOperatorOf(key_buffer, lastKey') # "")
       => /\ trace'.operator = VisualOperatorOf(key_buffer, lastKey')
          /\ trace'.op_start = PosMin(visual_anchor, cursor)
          /\ trace'.op_end = PosMax(visual_anchor, cursor)
          /\ trace'.op_type = (IF mode = VISUAL_LINE THEN LINEWISE ELSE INCLUSIVE)
          /\ result'.consumed
          /\ pending_operator' = <<>>
          /\ visual_anchor' = <<>>
          /\ mode' = (IF VisualOperatorOf(key_buffer, lastKey') = "operator_change"
                      THEN INSERT ELSE NORMAL)
          /\ (VisualOperatorOf(key_buffer, lastKey') \in {"operator_delete", "operator_yank"}) =>
                registers'[UNNAMED].content =
                    (IF mode = VISUAL_LINE
                     THEN JoinLines(SubSeq(lines, Min(visual_anchor[1], cursor[1]) + 1,
                                           Max(visual_anchor[1], cursor[1]) + 1))
                     ELSE SubSeq(Text(lines),
                                 Offset(lines, PosMin(visual_anchor, cursor)) + 1,
                                 Offset(lines, PosMax(visual_anchor, cursor))
                                   + (IF PosMax(visual_anchor, cursor)[2]
                                           < Len(lines[PosMax(visual_anchor, cursor)[1] + 1])
                                      THEN 1 ELSE 0)))]_vars


\* C22: u and ctrl+r in Normal mode clamp the cursor into the document before
\* and after the host's undo or redo, so that afterwards the cursor's row is at
\* most line_count - 1 and its column at most max(0, len(line) - 1), also when
\* the host restored a shorter text or raised; the key is consumed and the mode
\* stays Normal.
C22_UndoRedoSafety ==
    [][(/\ Idle
        /\ nkeys' = nkeys + 1
        /\ lastKey' \in {"u", "ctrl+r"})
       => /\ cursor'[1] <= Len(lines') - 1
          /\ cursor'[2] <= Max(0, Len(lines'[cursor'[1] + 1]) - 1)
          /\ InBounds(lines', cursor')
          /\ result'.consumed
          /\ mode' = NORMAL]_vars

\* the host restored "abc" with the cursor after the c; u left it on the c
C22_Witness ==
    /\ lastKey = "u" /\ nkeys = 4 /\ mode = NORMAL /\ result.consumed
    /\ lines = ONE_WORD /\ cursor = <<0, 2>>
    /\ \E h \in edit_history : h.lines = ONE_WORD /\ h.cursor = <<0, 3>>
    /\ \E h \in edit_history : Len(h.lines[1]) = 4


\* C23: in OperatorPending g followed by g executes the pending operator with
\* the document-start motion, linewise from row 0 through the cursor's row,
\* and returns the engine to Normal; it does not stay in OperatorPending.
C23_OperatorGG ==
    [][(/\ mode = OPERATOR_PENDING
        /\ key_buffer = <<"g">>
        /\ Handles("g"))
       => /\ trace'.motion = "motion_document_start"
          /\ trace'.operator # ""
          /\ trace'.op_type = LINEWISE
          /\ {trace'.op_start[1], trace'.op_end[1]} = {0, cursor[1]}
          /\ pending_operator' = <<>>
          /\ mode' = NORMAL]_vars

\* a line converted as the case operator with keys op converts text
CaseConverted(op, line) ==
    CASE op = <<"g", "u">> -> str_lower(line)
      [] op = <<"g", "U">> -> str_upper(line)
      [] op = <<"g", "~">> -> str_swapcase(line)

\* C24: gu, gU and g~ applied with a linewise motion (j, k, gg, G) convert
\* every character of every line from the smaller to the larger row, not only
\* the characters between the cursor and the motion's target; the length of
\* the text and the number of lines do not change.
C24_CaseLinewise ==
    [][(/\ mode = OPERATOR_PENDING
        /\ pending_operator \in {<<"g", "u">>, <<"g", "U">>, <<"g", "~">>}
        /\ nkeys' = nkeys + 1
        /\ trace'.motion # ""
        /\ ~trace'.failed
        /\ trace'.type = LINEWISE)
       => /\ Len(lines') = Len(lines)
          /\ \A i \in 1..Len(lines) :
                lines'[i] = IF /\ i - 1 >= Min(cursor[1], trace'.position[1])
                               /\ i - 1 <= Max(cursor[1], trace'.position[1])
                            THEN CaseConverted(pending_operator, lines[i])
                            ELSE lines[i]]_vars


\* C25: from the key that enters CommandLine mode to the key that leaves it,
\* no key (a character, Backspace, Enter, Escape or any other) changes the
\* text, the cursor or a register; only the command buffer and the mode change.
C25_CommandReadOnly ==
    [][(mode = COMMAND \/ mode' = COMMAND)
       => UNCHANGED <<lines, cursor, registers, current_register, pending_operator,
                      operator_count, motion_count, visual_anchor>>]_vars

\* x, then : w Enter: the text, the cursor and the register are those x left
C25_Witness ==
    /\ nkeys = 4 /\ lastKey = "enter" /\ mode = NORMAL
    /\ result.command_action = CMD_WRITE
    /\ lines = <<<<"a", "b", " ", "d">>, <<"e", "f">>>>
    /\ cursor = <<0, 3>>
    /\ registers[UNNAMED].content = <<"c">>


\* C26: the yank operator, applied to a range of any kind (exclusive,
\* inclusive, linewise) that comes from a motion, a text object or a visual
\* selection, leaves the text and the number of lines exactly as they were.
C26_YankKeepsText ==
    [][(nkeys' = nkeys + 1 /\ trace'.operator = "operator_yank")
       => (lines' = lines /\ Len(lines') = Len(lines))]_vars

\* a yank of a visual selection of more than one character has happened
C26_Witness ==
    /\ lastKey = "y" /\ mode = NORMAL
    /\ trace.operator = "operator_yank" /\ trace.op_type = INCLUSIVE
    /\ trace.op_start # trace.op_end
    /\ Len(registers[UNNAMED].content) >= 2
    /\ lines = TWO_WORDS


\* C27: in Normal mode with an empty count buffer the key 0 is the line-start
\* motion (cursor to column 0, the buffer stays empty); a digit 1-9, and 0
\* once the buffer is not empty, is appended to the count buffer and consumed
\* without moving the cursor; the next motion uses the accumulated decimal
\* value (at least 1) as its count and empties the buffer: 1, 0, j moves down
\* ten rows, clamped to the last row.
C27_CountDigits ==
    [][(Idle /\ nkeys' = nkeys + 1)
       => /\ (lastKey' = "0" /\ input_buffer = <<>>) =>
                /\ trace'.motion = "motion_line_start"
                /\ cursor' = <<cursor[1], 0>>
                /\ input_buffer' = <<>>
                /\ result'.consumed
          /\ (lastKey' \in Range(DigitSeq) /\ (lastKey' # "0" \/ input_buffer # <<>>)) =>
                /\ input_buffer' = Append(input_buffer, lastKey')
                /\ result'.consumed
                /\ trace'.motion = ""
                /\ UNCHANGED <<cursor, lines, mode>>
          /\ trace'.motion # "" =>
                /\ trace'.count = TypedCount
                /\ TypedCount >= 1
                /\ input_buffer' = <<>>
          /\ lastKey' = "j" =>
                cursor'[1] = Min(cursor[1] + TypedCount, Len(lines) - 1)
          /\ lastKey' = "l" =>
                cursor'[2] = Min(cursor[2] + TypedCount,
                                 Max(0, Len(lines[cursor[1] + 1]) - 1))]_vars

\* 1, 0, j from the first of five lines has ended on the last
C27_Witness ==
    /\ lines = FIVE_LINES /\ nkeys = 3 /\ lastKey = "j" /\ mode = NORMAL
    /\ trace.motion = "motion_down" /\ trace.count = 10 /\ trace.from = <<0, 0>>
    /\ cursor = <<4, 0>> /\ input_buffer = <<>>


\* the keys that are motions on their own
MOTION_KEYS ==
    {"h", "j", "k", "l", "left", "right", "down", "up", "backspace", "space", "0", "^",
     "$", "w", "W", "e", "E", "b", "B", "G", ";", ","}

\* the keys OperatorPending handles before it looks for a motion or a text
\* object: Escape, a count digit, a text-object prefix
HandledFirst(k) ==
    \/ k \in ESCAPE_KEYS
    \/ k \in Range(DigitSeq) /\ (k # "0" \/ input_buffer # <<>>)
    \/ k \in {"i", "a"}

\* the pending operator is cancelled by the step and nothing else has changed
OperatorCancelled ==
    /\ result'.consumed
    /\ pending_operator' = <<>>
    /\ operator_count' = 1 /\ motion_count' = 1 /\ input_buffer' = <<>>
    /\ mode' = NORMAL
    /\ UNCHANGED <<lines, cursor, registers>>

C29_RepeatFind ==
    [][(/\ Idle
        /\ nkeys' = nkeys + 1
        /\ lastKey' \in {";", ","}
        /\ last_char_search # "")
       => /\ UNCHANGED <<last_char_search, last_char_search_cmd>>
          /\ (~trace'.failed /\ lastKey' = ";") =>
                IF last_char_search_cmd \in {"f", "t"} THEN cursor'[2] >= cursor[2]
                ELSE cursor'[2] <= cursor[2]
          /\ (~trace'.failed /\ lastKey' = ",") =>
                IF last_char_search_cmd \in {"f", "t"} THEN cursor'[2] <= cursor[2]
                ELSE cursor'[2] >= cursor[2]]_vars


\* the rows of the range the operator of the step is applied to
SpanRows ==
    Min(trace'.op_start[1], trace'.op_end[1])..Max(trace'.op_start[1], trace'.op_end[1])

\* the length of the one indent unit a line starts with: a single leading tab,
\* or its leading spaces up to four
RECURSIVE LeadingSpaces(_)
LeadingSpaces(line) ==
    IF line = <<>> \/ line[1] # " " THEN 0 ELSE 1 + LeadingSpaces(Tail(line))

IndentUnit(line) ==
    IF line # <<>> /\ line[1] = "\t" THEN 1 ELSE Min(4, LeadingSpaces(line))

\* dedenting the rows a..b of the indented rows a..b of the present text
IndentThenDedent(a, b) ==
    LET Dedented(S) == operator_dedent(S, <<a, 0>>, <<b, 0>>, LINEWISE).S.lines
    IN Dedented(operator_indent(State, <<a, 0>>, <<b, 0>>, LINEWISE).S)

\* C30: the indent operator prepends exactly four spaces to every line of the
\* row span of its range, empty lines included, and changes no other line;
\* the dedent operator removes from each line of the span at most one indent
\* unit (up to four leading spaces, or a single leading tab) and nothing else;
\* so indenting a row span and then dedenting it restores the text.
C30_IndentDedent ==
    [][/\ (nkeys' = nkeys + 1 /\ trace'.operator = "operator_indent")
          => /\ Len(lines') = Len(lines)
             /\ \A i \in 1..Len(lines) :
                   lines'[i] = IF i - 1 \in SpanRows
                               THEN <<" ", " ", " ", " ">> \o lines[i]
                               ELSE lines[i]
       /\ (nkeys' = nkeys + 1 /\ trace'.operator = "operator_dedent")
          => /\ Len(lines') = Len(lines)
             /\ \A i \in 1..Len(lines) :
                   lines'[i] = IF i - 1 \in SpanRows
                               THEN SubSeq(lines[i], IndentUnit(lines[i]) + 1, Len(lines[i]))
                               ELSE lines[i]
       /\ \A a \in 0..(Len(lines) - 1) : \A b \in a..(Len(lines) - 1) :
             IndentThenDedent(a, b) = lines]_vars

\* what pressing the operator op and then $ leaves, from the present state
ViaLineEnd(op) ==
    host_on_key(handle_operator_pending(
                    host_on_key(handle_normal_mode(Received, op, Snapshot), op), "$"),
                "$")

\* C31: D is d$ and C is c$: from any Normal-mode state (any line, an empty
\* line included, and any cursor column the engine can reach) pressing D
\* leaves the same text, the same registers and the same mode as pressing d
\* and then $, and pressing C the same as pressing c and then $.
C31_EolShorthand ==
    [][ /\ Idle
        /\ input_buffer = <<>>
        /\ Handles("D") \/ Handles("C")
        => LET Same(E) == /\ lines' = E.lines
                          /\ registers' = E.registers
                          /\ mode' = E.mode
           IN Same(ViaLineEnd(IF lastKey' = "D" THEN "d" ELSE "c")) ]_vars

\* the columns of line that hold the quote character q
QuoteColumns(line, q) == {k \in 0..(Len(line) - 1) : line[k + 1] = q}

\* the quote the object opens with: the nearest one at or before col, or the
\* first one after col when there is none
OpeningQuote(line, q, col) ==
    IF {k \in QuoteColumns(line, q) : k <= col} # {}
    THEN SetMax({k \in QuoteColumns(line, q) : k <= col})
    ELSE SetMin(QuoteColumns(line, q))

\* col is on text between two complete quoted strings of line: an even number
\* of quotes, at least two, on either side of it
BetweenStrings(line, q, col) ==
    /\ col \notin QuoteColumns(line, q)
    /\ Cardinality({k \in QuoteColumns(line, q) : k < col}) \in {2, 4, 6}
    /\ Cardinality({k \in QuoteColumns(line, q) : k > col}) \in {2, 4, 6}

\* C32: a quote text object (i or a, then " or ') on the current line picks
\* the quote that encloses the cursor or, with no quote at or before the
\* cursor, the first one after it, and the next quote after that; the inner
\* object lies strictly between the two and the outer one includes both; it
\* fails when the opening quote has no later quote; and with the cursor on
\* text between two complete quoted strings it never selects the text from
\* the first string's closing quote to the second string's opening quote.
C32_QuoteObjects ==
    [][ /\ mode = OPERATOR_PENDING
        /\ key_buffer \in {<<"i">>, <<"a">>}
        /\ Handles("\"") \/ Handles("'")
        => LET Chosen(line, q, col, inner) ==
                 /\ trace'.textobj # ""
                 /\ trace'.failed <=>
                       \/ QuoteColumns(line, q) = {}
                       \/ {k \in QuoteColumns(line, q) : k > OpeningQuote(line, q, col)} = {}
                 /\ ~trace'.failed =>
                       /\ trace'.op_start
                            = <<cursor[1], OpeningQuote(line, q, col) + (IF inner THEN 1 ELSE 0)>>
                       /\ trace'.op_end
                            = <<cursor[1],
                                SetMin({k \in QuoteColumns(line, q) :
                                           k > OpeningQuote(line, q, col)})
                                  + (IF inner THEN 0 ELSE 1)>>
                 /\ BetweenStrings(line, q, col) /\ ~trace'.failed =>
                       trace'.op_start[2] \notin
                           {SetMax({k \in QuoteColumns(line, q) : k < col}),
                            SetMax({k \in QuoteColumns(line, q) : k < col}) + 1}
           IN Chosen(lines[cursor[1] + 1], lastKey', cursor[2], key_buffer = <<"i">>) ]_vars

\* the modes that handle_key dispatches on
HANDLED_MODES == {NORMAL, INSERT, VISUAL, VISUAL_LINE, OPERATOR_PENDING, COMMAND}

\* C33: VisualBlock is never entered: ctrl+v pressed in Normal mode resolves
\* to the keymap entry mode_visual_block, which has no handler, so the key is
\* reported unconsumed and the mode stays Normal; and the mode is always one
\* of Normal, Insert, Visual, VisualLine, OperatorPending and CommandLine.
C33_NoVisualBlock ==
    [][ /\ mode \in HANDLED_MODES
        /\ mode' \in HANDLED_MODES
        /\ Idle /\ Handles("ctrl+v") =>
              /\ lookup("ctrl+v", "normal") = <<BindingType_MODE_SWITCH, "mode_visual_block">>
              /\ ~result'.consumed
              /\ mode' = NORMAL
              /\ notified' = notified
              /\ lines' = lines ]_vars

\* C33 happens: ctrl+v was pressed in Normal mode after a visit to Visual mode
C33_Witness ==
    /\ lastKey = "ctrl+v"
    /\ nkeys >= 3
    /\ mode = NORMAL
    /\ ~result.consumed
    /\ key_buffer = <<>>
    /\ pending_char_cmd = ""
    /\ visual_anchor = <<>>
    /\ keys = {"ctrl+v", "v", "V", "j", "2", "escape"}

\* C34: pending_operator is set exactly when the mode is OperatorPending; in
\* every other mode it is empty and operator_count and motion_count are 1.
C34_PendingOperatorTracksMode ==
    /\ pending_operator # <<>> <=> mode = OPERATOR_PENDING
    /\ mode # OPERATOR_PENDING => operator_count = 1 /\ motion_count = 1

\* C34 happens: 2 d h has run a counted delete and the engine is back in
\* Normal mode
C34_Witness ==
    /\ nkeys = 3
    /\ lastKey = "h"
    /\ mode = NORMAL
    /\ trace.operator = "operator_delete"
    /\ trace.count = 2
    /\ pending_operator = <<>>
    /\ operator_count = 1

VISUAL_MODES == {VISUAL, VISUAL_LINE}

\* C35: visual_anchor is set exactly when the mode is Visual or VisualLine;
\* it is the cursor position at the moment v or V is pressed in Normal mode,
\* motions and the switch between v and V keep it, and every exit from the
\* visual modes clears it.
C35_VisualAnchorTracksMode ==
    [][ /\ visual_anchor # <<>> <=> mode \in VISUAL_MODES
        /\ visual_anchor' # <<>> <=> mode' \in VISUAL_MODES
        /\ mode \notin VISUAL_MODES /\ mode' \in VISUAL_MODES =>
              /\ mode = NORMAL
              /\ lastKey' \in {"v", "V"}
              /\ visual_anchor' = cursor
        /\ mode \in VISUAL_MODES /\ mode' \in VISUAL_MODES =>
              visual_anchor' = visual_anchor
        /\ mode \in VISUAL_MODES /\ mode' \notin VISUAL_MODES =>
              visual_anchor' = <<>> ]_vars

\* C35 happens: V, j, v has moved the cursor off the anchor and switched from
\* VisualLine to Visual
C35_Witness ==
    /\ lines = FOUR_LINES
    /\ nkeys = 3
    /\ lastKey = "v"
    /\ mode = VISUAL
    /\ visual_anchor = <<1, 1>>
    /\ cursor[1] = 2

\* C36: whenever the engine leaves OperatorPending (by Escape, by an
\* unmatched key, by a failed or successful motion or text object) the
\* multi-key prefix buffer and the pending single-character request are both
\* empty, so the next key is dispatched as a fresh Normal-mode key.
C36_NoStalePrefix ==
    [][ mode = OPERATOR_PENDING /\ mode' # OPERATOR_PENDING
        => key_buffer' = <<>> /\ pending_char_cmd' = "" ]_vars

FORWARD_WORD_MOTIONS ==
    {"motion_word_forward", "motion_word_forward_big", "motion_word_end",
     "motion_word_end_big"}

\* C37: the target of w, W, e and E, with any count, is never before the
\* cursor position the motion starts from (row first, then column), the last
\* word of the last line included; so d w on the last word of the document
\* never deletes text that lies before the cursor.
C37_ForwardWordMotions ==
    [][ trace'.motion \in FORWARD_WORD_MOTIONS
        => /\ trace'.from = cursor
           /\ PosLeq(cursor, trace'.position)
           /\ trace'.operator = "operator_delete" =>
                 SubSeq(Text(lines'), 1, Offset(lines, cursor))
                    = SubSeq(Text(lines), 1, Offset(lines, cursor)) ]_vars

\* C38: N x in Normal mode, with at least N characters from the cursor to
\* the end of the line, removes exactly those N characters and leaves all N
\* of them in the unnamed register; N X does the same with the N characters
\* before the cursor.
C38_CountedCharDelete ==
    [][ /\ Idle
        /\ Handles("x") \/ Handles("X")
        => LET Removes(line, col, n, a) ==
                 \* a is the first column removed
                 /\ a >= 0 /\ a + n <= Len(line) =>
                       /\ lines' = [lines EXCEPT ![cursor[1] + 1] =
                                       SubSeq(line, 1, a) \o SubSeq(line, a + n + 1, Len(line))]
                       /\ registers'[UNNAMED] = Register(SubSeq(line, a + 1, a + n), FALSE)
           IN Removes(lines[cursor[1] + 1], cursor[2], trace'.count,
                      IF lastKey' = "x" THEN cursor[2] ELSE cursor[2] - trace'.count) ]_vars

\* C39: after every key the mode last notified to the host (Normal before
\* any notification) is the engine's mode, except that it is Normal while
\* the engine is in OperatorPending; so no mode other than OperatorPending is
\* entered or left without a notification.
C39_ModeNotifications ==
    notified = IF mode = OPERATOR_PENDING THEN NORMAL ELSE mode

\* C39 happens: c h has left OperatorPending for Insert mode and the host
\* was told
C39_Witness ==
    /\ nkeys = 2
    /\ lastKey = "h"
    /\ trace.operator = "operator_change"
    /\ mode = INSERT
    /\ notified = INSERT

\* the keys that name a bracket text object, with the pair each one names
BRACKET_KEYS == {"(", ")", "b", "[", "]", "{", "}", "B", "<", ">"}

OpenOf(k) ==
    CASE k \in {"(", ")", "b"} -> "("
      [] k \in {"[", "]"} -> "["
      [] k \in {"{", "}", "B"} -> "{"
      [] OTHER -> "<"

CloseOf(k) ==
    CASE k \in {"(", ")", "b"} -> ")"
      [] k \in {"[", "]"} -> "]"
      [] k \in {"{", "}", "B"} -> "}"
      [] OTHER -> ">"

\* the columns o, c of the pairs of line that enclose col, a delimiter
\* column included: c is the first closing bracket after o with as many
\* opening as closing brackets in between
PairsAround(line, col, op, cl) ==
    {p \in (0..col) \X (col..(Len(line) - 1)) :
        /\ p[1] < p[2]
        /\ line[p[1] + 1] = op
        /\ line[p[2] + 1] = cl
        /\ Count(line, p[1] + 1, p[2] - 1, op) = Count(line, p[1] + 1, p[2] - 1, cl)
        /\ \A k \in (p[1] + 1)..(p[2] - 1) :
              line[k + 1] = cl =>
                  Count(line, p[1] + 1, k - 1, op) # Count(line, p[1] + 1, k - 1, cl)}

\* the innermost of them
InnermostPair(ps) == CHOOSE p \in ps : \A q \in ps : q[1] <= p[1]

\* C40: on a line with balanced brackets a bracket text object (i or a, then
\* a bracket key) gives the range of the innermost pair around the cursor,
\* the same whether the cursor is on the opening bracket, inside the pair or
\* on the closing bracket; an empty pair gives a zero-width inner range; the
\* object fails only when no pair encloses the cursor.
C40_BracketObjects ==
    [][ /\ mode = OPERATOR_PENDING
        /\ key_buffer \in {<<"i">>, <<"a">>}
        /\ \E k \in BRACKET_KEYS : Handles(k)
        => LET Found(ps, inner) ==
                 /\ trace'.textobj # ""
                 /\ trace'.failed <=> ps = {}
                 /\ ~trace'.failed /\ ps # {} =>
                       /\ trace'.op_start
                            = <<cursor[1], InnermostPair(ps)[1] + (IF inner THEN 1 ELSE 0)>>
                       /\ trace'.op_end
                            = <<cursor[1], InnermostPair(ps)[2] + (IF inner THEN 0 ELSE 1)>>
           IN Found(PairsAround(lines[cursor[1] + 1], cursor[2],
                                OpenOf(lastKey'), CloseOf(lastKey')),
                    key_buffer = <<"i">>) ]_vars

=============================================================================
